---- MODULE Spec2Model ----
(***************************************************************************)
(* Round-based play / possession resolution engine of Smashball           *)
(* (docs/POSSESSION_SIMULATION_PLAN.md).                                   *)
(*                                                                         *)
(* Numbers.  The engine computes with reals; the model keeps them exact   *)
(* as scaled integers:                                                     *)
(*   - rolls, margins and separations in units of 1/RU (RU = 100000:      *)
(*     a weight in percent times a variance factor in permille);          *)
(*   - catch probabilities, qbRoll and rollMean in hundredths;            *)
(*   - QB scores, throw likelihood and interception chance in             *)
(*     thousandths;                                                        *)
(*   - a Math.random() result in permille (0..999).                        *)
(***************************************************************************)
EXTENDS Integers, Sequences, FiniteSets, TLC

VARIABLES
    offense,        \* roster of the offense: qb, receivers, oLine, playbook
    defense,        \* roster of the defense: dLine, dbs
    fieldPosition,  \* simulatePossession: fieldPosition {yardsFromGoal, yardsToGo, down}
    state,          \* simulatePlay: the PlayState of the play being simulated
    phase,          \* simulatePlay: position in the round loop
    decision,       \* simulatePlay: throwDecision of the current round
    startPosition,  \* simulatePossession: startingFieldPosition
    playsLength,    \* simulatePossession: plays.length
    lastPlay,       \* simulatePossession: plays[plays.length - 1]
    sumYards,       \* history: sum of yardsGained over plays
    endedEarlier,   \* history: some play before the last is a touchdown or an interception
    driveResult,    \* simulatePossession: driveResult (type "none" while null)
    clash           \* locals of the clash in progress: the for loop of
                    \* processLineClashesRound, or one resolveTackleAttempt call

vars == <<offense, defense, fieldPosition, state, phase, decision,
          startPosition, playsLength, lastPlay, sumYards, endedEarlier, driveResult,
          clash>>

-----------------------------------------------------------------------------
(* Arithmetic helpers *)

Min(a, b) == IF a < b THEN a ELSE b

Max(a, b) == IF a > b THEN a ELSE b

\* one whole unit of a roll: percent weight x permille factor
RU == 100 * 1000

Indices(seq) == 1 .. Len(seq)

-----------------------------------------------------------------------------
(* Route templates: per-round depth and crossing flag, break round (0 = none) *)

Route(d, c, b) == [depth |-> d, crossing |-> c, breakRound |-> b]

NoCross == <<FALSE, FALSE, FALSE, FALSE, FALSE>>

Cross1 == <<TRUE, FALSE, FALSE, FALSE, FALSE>>

Cross2 == <<FALSE, TRUE, FALSE, FALSE, FALSE>>

Cross3 == <<FALSE, FALSE, TRUE, FALSE, FALSE>>

StandardRoutes ==
    [ go       |-> Route(<<5, 12, 20, 28, 35>>, NoCross, 0),
      slant    |-> Route(<<3, 6, 8, 8, 8>>, Cross1, 1),
      out      |-> Route(<<4, 8, 10, 10, 10>>, Cross2, 2),
      in       |-> Route(<<4, 8, 10, 10, 10>>, Cross2, 2),
      post     |-> Route(<<5, 10, 18, 25, 30>>, Cross2, 2),
      corner   |-> Route(<<5, 10, 18, 25, 30>>, Cross2, 2),
      curl     |-> Route(<<5, 10, 8, 8, 8>>, Cross3, 3),
      comeback |-> Route(<<5, 12, 10, 10, 10>>, Cross3, 3),
      dig      |-> Route(<<4, 8, 10, 12, 12>>, Cross3, 3),
      seam     |-> Route(<<4, 10, 16, 22, 28>>, NoCross, 0),
      flat     |-> Route(<<2, 3, 3, 3, 3>>, Cross1, 1),
      wheel    |-> Route(<<2, 5, 10, 16, 22>>, Cross1, 1),
      hitch    |-> Route(<<4, 4, 4, 4, 4>>, NoCross, 1) ]

RedZoneRoutes ==
    [ fade          |-> Route(<<4, 8, 12, 15, 15>>, NoCross, 0),
      back_shoulder |-> Route(<<5, 8, 7, 7, 7>>, NoCross, 3),
      corner_fade   |-> Route(<<3, 6, 10, 12, 12>>, Cross2, 2),
      quick_slant   |-> Route(<<2, 5, 6, 6, 6>>, Cross1, 1),
      out_quick     |-> Route(<<3, 5, 5, 5, 5>>, Cross2, 2) ]

GoalLineRoutes ==
    [ endzone_fade  |-> Route(<<2, 5, 7, 7, 7>>, NoCross, 0),
      endzone_slant |-> Route(<<2, 4, 5, 5, 5>>, Cross1, 1),
      endzone_out   |-> Route(<<2, 3, 4, 4, 4>>, Cross2, 2),
      endzone_flat  |-> Route(<<1, 2, 2, 2, 2>>, Cross1, 1) ]

ROUTE_TEMPLATES ==
    [ goalline |-> GoalLineRoutes, redzone |-> RedZoneRoutes, standard |-> StandardRoutes ]

\* selectRoutesForPlay: the field zone
FieldZone(yardsFromGoal) ==
    IF yardsFromGoal <= 8 THEN "goalline"
    ELSE IF yardsFromGoal <= 20 THEN "redzone" ELSE "standard"

-----------------------------------------------------------------------------
(* QB traits; multipliers in tenths, scrambleBonus 0 when the trait has none *)

Trait(open, pm, bias, aggr, scr) ==
    [ openThreshold |-> open, pressureMultiplier |-> pm, firstDownBias |-> bias,
      aggressiveness |-> aggr, scrambleBonus |-> scr ]

QB_TRAITS ==
    [ gunslinger   |-> Trait(60, 7, -10, 13, 0),
      game_manager |-> Trait(45, 13, 20, 7, 0),
      balanced     |-> Trait(52, 10, 5, 10, 0),
      scrambler    |-> Trait(55, 5, 0, 9, 20) ]

\* QB_TRAITS[state.qb.trait] || QB_TRAITS.balanced
TraitOf(name) ==
    IF name \in DOMAIN QB_TRAITS THEN QB_TRAITS[name] ELSE QB_TRAITS.balanced

-----------------------------------------------------------------------------
(* Weighted stat roll *)

\* sum of attribute x weight over a weight table <<<<skill, percent>>, ...>>
RECURSIVE WeightedTotal(_, _, _)
WeightedTotal(stats, table, i) ==
    IF i > Len(table) THEN 0
    ELSE stats[table[i][1]] * table[i][2] + WeightedTotal(stats, table, i + 1)

\* 1 + (u - 0.5) * 2 * 0.2 in permille, u a Math.random() result in permille
RandomFactor(u) == 1000 + ((u - 500) * 2 * 200) \div 1000

WeightedStatRoll(stats, table, u) == WeightedTotal(stats, table, 1) * RandomFactor(u)

OLBlockWeights == << <<"passBlock", 35>>, <<"strength", 30>>, <<"balance", 20>>, <<"awareness", 15>> >>

DLRushWeights == << <<"passRush", 35>>, <<"strength", 30>>, <<"acceleration", 20>>, <<"speed", 15>> >>

WRRouteWeights ==
    << <<"routeRunning", 25>>, <<"agility", 25>>, <<"speed", 25>>,
       <<"acceleration", 15>>, <<"release", 10>> >>

DBCoverageWeights ==
    << <<"manCoverage", 30>>, <<"speed", 25>>, <<"agility", 20>>,
       <<"awareness", 15>>, <<"acceleration", 10>> >>

QBVisionWeights == << <<"awareness", 50>>, <<"throwing", 30>>, <<"focus", 20>> >>

BreakTackleWeights == << <<"agility", 35>>, <<"speed", 25>>, <<"balance", 25>>, <<"strength", 15>> >>

TackleWeights == << <<"tackling", 40>>, <<"pursuit", 25>>, <<"hitPower", 20>>, <<"speed", 15>> >>

YACRunWeights == << <<"speed", 35>>, <<"acceleration", 25>>, <<"agility", 25>>, <<"balance", 15>> >>

-----------------------------------------------------------------------------
(* Random draws.  A Math.random() result is a permille value; the sets hold *)
(* the values the model draws.                                              *)

\* draws of the variance factor of a weighted roll
RollDraws == {0, 500, 995}

\* draws compared with a probability (0.2 .. 0.4) or scaled to a range
ChanceDraws == {0, 999}

-----------------------------------------------------------------------------
(* Play state *)

NoResult == [type |-> "none", yardsGained |-> 0]

NoDecision == [shouldThrow |-> FALSE, target |-> 0]

\* no clash in progress
NoClash == [kind |-> "none", i |-> 0, total |-> 0, dl |-> 0, margin |-> 0]

\* initializePlayState; routes[i] is selectedRoutes[wr.id] of receiver i
InitializePlayState(off, def, fp, routes) ==
    [ round |-> 0,
      maxRounds |-> 5,
      yardsFromGoal |-> fp.yardsFromGoal,
      yardsToGo |-> fp.yardsToGo,
      down |-> fp.down,
      totalPressure |-> 0,
      sacked |-> FALSE,
      sackingPlayer |-> 0,
      pressureBonus |-> 0,
      receivers |-> [i \in Indices(off.receivers) |->
                        [ route |-> routes[i], currentDepth |-> 0, separation |-> 0,
                          catchProbability |-> 0, rollMean |-> 0 ]],
      oLine |-> [i \in Indices(off.oLine) |-> [knockedDown |-> FALSE]],
      dLine |-> [i \in Indices(def.dLine) |->
                        [knockedDown |-> FALSE, pressureContribution |-> 0]],
      result |-> NoResult ]

\* findEngagedOLineman: index of the OL assigned to DL i, 0 when there is none
FindEngagedOLineman(s, i) == defense.dLine[i].engagedOL

\* findCoveringDefenders: the DBs assigned to receiver r, in roster order
FindCoveringDefenders(s, r) ==
    SelectSeq([k \in Indices(defense.dbs) |-> k], LAMBDA k : defense.dbs[k].covers = r)

\* findNearestDefender: the first covering defender, 0 when there is none
FindNearestDefender(s, r) ==
    LET ds == FindCoveringDefenders(s, r) IN IF Len(ds) = 0 THEN 0 ELSE ds[1]

\* findNextTackler: the defender next in pursuit order, 0 when no one is left
FindNextTackler(s, r, attempt) ==
    IF attempt + 1 <= Len(defense.dbs) THEN attempt + 1 ELSE 0

-----------------------------------------------------------------------------
(* 4. OL/DL clash *)

\* processLineClashesRound: the cap of the summed contributions
ClampPressure_NoCap(total) == total

ClampPressure(total) == Min(total, 100)

\* processLineClashesRound: pressure contribution of a clash margin
MarginPressure(margin) ==
    IF margin > 20 * RU THEN 35
    ELSE IF margin > 10 * RU THEN 25
    ELSE IF margin > 5 * RU THEN 15
    ELSE IF margin > 0 THEN 10
    ELSE IF margin > -5 * RU THEN 5
    ELSE 0

\* processLineClashesRound: margin = dlRoll - olRoll of DL i and its engaged OL,
\* over all draws
ClashMargins(s, i) ==
    LET olIx == FindEngagedOLineman(s, i)
        roundBonus == (s.round - 1) * 5
    IN  { WeightedStatRoll(defense.dLine[i].stats, DLRushWeights, dlU)
            + roundBonus * RU
            - WeightedStatRoll(offense.oLine[olIx].stats, OLBlockWeights, olU) :
          olU \in RollDraws, dlU \in RollDraws }

\* the unblocked test without the knocked-down blocker
Unblocked_MissingBlockerOnly(s, i) ==
    ~s.dLine[i].knockedDown /\ FindEngagedOLineman(s, i) = 0

\* processLineClashesRound: DL i is not knocked down and has no standing engaged OL
Unblocked(s, i) ==
    LET olIx == FindEngagedOLineman(s, i)
    IN  ~s.dLine[i].knockedDown /\ (olIx = 0 \/ s.oLine[olIx].knockedDown)

\* processLineClashesRound: the loop body for DL i with the clash margin drawn from
\* margins, over the remaining draws; a = [s, total]
ClashLinemanAt(a, i, margins) ==
    LET s == a.s
        olIx == FindEngagedOLineman(s, i)
        Engaged(margin, sack, olDown, dlDown) ==
            [ s |-> [s EXCEPT !.dLine[i] = [ knockedDown |-> dlDown,
                                             pressureContribution |-> MarginPressure(margin) ],
                              !.oLine[olIx].knockedDown = IF olDown THEN TRUE ELSE @,
                              !.sacked = IF sack THEN TRUE ELSE @,
                              !.sackingPlayer = IF sack THEN i ELSE @],
              total |-> a.total + MarginPressure(margin) ]
    IN  IF s.dLine[i].knockedDown
        THEN { [a EXCEPT !.s.dLine[i].pressureContribution = 0] }
        ELSE IF Unblocked(s, i)
        THEN { [ s |-> [s EXCEPT !.dLine[i].pressureContribution = 40,
                                 !.sacked = IF rand < 350 THEN TRUE ELSE @,
                                 !.sackingPlayer = IF rand < 350 THEN i ELSE @],
                 total |-> a.total + 40 ] : rand \in ChanceDraws }
        ELSE UNION {
               IF margin > 20 * RU
               THEN { Engaged(margin, rand1 < 250, rand2 < 300, FALSE) :
                        rand1 \in ChanceDraws, rand2 \in ChanceDraws }
               ELSE IF margin <= -10 * RU
               THEN { Engaged(margin, FALSE, FALSE, rand < 200) : rand \in ChanceDraws }
               ELSE { Engaged(margin, FALSE, FALSE, FALSE) } :
               margin \in margins }

\* processLineClashesRound: the loop body for DL i, over all draws
ClashLineman(a, i) ==
    ClashLinemanAt(a, i, IF a.s.dLine[i].knockedDown \/ Unblocked(a.s, i)
                         THEN {} ELSE ClashMargins(a.s, i))

RECURSIVE LineLoop(_, _, _)
LineLoop(accs, i, n) ==
    IF i > n THEN accs
    ELSE LineLoop(UNION {ClashLineman(a, i) : a \in accs}, i + 1, n)

\* processLineClashesRound: the states it can leave, over all draws
ProcessLineClashesRound(s) ==
    { [a.s EXCEPT !.totalPressure = ClampPressure(a.total)] :
        a \in LineLoop({[s |-> s, total |-> 0]}, 1, Len(s.dLine)) }

\* resolveSack with the range one yard too wide
ResolveSack_ElevenYards(s, rand) ==
    [type |-> "sack", yardsGained |-> -(5 + (rand * 7) \div 1000)]

\* resolveSack: 5 + floor(rand * 6) yards lost
ResolveSack(s, rand) ==
    [type |-> "sack", yardsGained |-> -(5 + (rand * 6) \div 1000)]

-----------------------------------------------------------------------------
(* 5. WR/DB separation *)

\* processReceiverClashesRound: a defender's roll less the crossing penalty
AdjustedRoll(st, isCrossing, u) ==
    LET defenderRoll == WeightedStatRoll(st, DBCoverageWeights, u)
        crossingPenalty == IF isCrossing THEN (100 - st.agility) * 15 * 1000 ELSE 0
    IN  defenderRoll - crossingPenalty

\* processReceiverClashesRound: best adjusted defender roll, starting from 0
RECURSIVE BestDefenderRoll(_, _, _, _, _)
BestDefenderRoll(ds, us, isCrossing, k, best) ==
    IF k > Len(ds) THEN best
    ELSE LET adjustedRoll == AdjustedRoll(defense.dbs[ds[k]].stats, isCrossing, us[k])
         IN  BestDefenderRoll(ds, us, isCrossing, k + 1, Max(best, adjustedRoll))

\* processReceiverClashesRound: the receiver's roll with crossing and break bonus
ReceiverRoll(st, isCrossing, isBreakRound, wrU) ==
    LET crossingBonus == st.agility * 30 + st.routeRunning * 20
    IN  WeightedStatRoll(st, WRRouteWeights, wrU)
          + (IF isCrossing THEN (crossingBonus * 1000) \div 2 ELSE 0)
          + (IF isBreakRound THEN st.routeRunning * 30 * 1000 ELSE 0)

\* the loop body for receiver r without the early exit of the uncovered receiver
ClashReceiver_OpenByRoll(s, r, wrU, us) ==
    LET rt == s.receivers[r].route
        isCrossing == rt.crossing[s.round]
        isBreakRound == rt.breakRound = s.round
        depth == rt.depth[s.round]
        ds == FindCoveringDefenders(s, r)
        st == offense.receivers[r].stats
        receiverRoll == ReceiverRoll(st, isCrossing, isBreakRound, wrU)
        best == BestDefenderRoll(ds, us, isCrossing, 1, 0)
                  + (IF Len(ds) > 1 THEN 10 * RU ELSE 0)
    IN  [s EXCEPT !.receivers[r].currentDepth = depth,
                  !.receivers[r].separation = receiverRoll - best]

\* processReceiverClashesRound: the loop body for receiver r
ClashReceiver(s, r, wrU, us) ==
    LET rt == s.receivers[r].route
        isCrossing == rt.crossing[s.round]
        isBreakRound == rt.breakRound = s.round
        depth == rt.depth[s.round]
        ds == FindCoveringDefenders(s, r)
        st == offense.receivers[r].stats
        receiverRoll == ReceiverRoll(st, isCrossing, isBreakRound, wrU)
        best == BestDefenderRoll(ds, us, isCrossing, 1, 0)
                  + (IF Len(ds) > 1 THEN 10 * RU ELSE 0)
    IN  IF Len(ds) = 0
        THEN [s EXCEPT !.receivers[r].currentDepth = depth,
                       !.receivers[r].separation = 30 * RU]
        ELSE [s EXCEPT !.receivers[r].currentDepth = depth,
                       !.receivers[r].separation = receiverRoll - best]

RECURSIVE ReceiverLoop(_, _, _)
ReceiverLoop(ss, r, n) ==
    IF r > n THEN ss
    ELSE ReceiverLoop(
           UNION { { ClashReceiver(s, r, wrU, us) :
                       wrU \in RollDraws,
                       us \in [Indices(FindCoveringDefenders(s, r)) -> RollDraws] } :
                   s \in ss },
           r + 1, n)

\* processReceiverClashesRound: the states it can leave, over all draws
ProcessReceiverClashesRound(s) == ReceiverLoop({s}, 1, Len(s.receivers))

-----------------------------------------------------------------------------
(* 6. Catch probability *)

\* calculateCatchProbabilities: Math.max(5, Math.min(95, catchProb)), in hundredths
ClampCatch_NoFloor(cp) == Min(9500, cp)

ClampCatch(cp) == Max(500, Min(9500, cp))

\* the separation bonus / penalty with the strict bounds of the margin table
SeparationAdjust_Strict(sep) ==
    IF sep > 20 * RU THEN 15
    ELSE IF sep > 10 * RU THEN 8
    ELSE IF sep > 3 * RU THEN 3
    ELSE IF sep > -3 * RU THEN 0
    ELSE IF sep > -10 * RU THEN -15
    ELSE -30

\* calculateCatchProbabilities: separation bonus / penalty
SeparationAdjust(sep) ==
    IF sep >= 20 * RU THEN 15
    ELSE IF sep >= 10 * RU THEN 8
    ELSE IF sep >= 3 * RU THEN 3
    ELSE IF sep >= -3 * RU THEN 0
    ELSE IF sep >= -10 * RU THEN -15
    ELSE -30

\* calculateCatchProbabilities: the catch threshold of one receiver, in hundredths
CatchProb(st, sep, depth) ==
    ClampCatch( st.catching * 100
                + SeparationAdjust(sep) * 100
                + (IF sep < 5 * RU THEN (st.focus - 70) * 30 ELSE 0)
                - Max(0, (depth - 15) * 30) )

\* calculateCatchProbabilities: rollMean in hundredths
RollMean(qbStats, pressure) ==
    7900 + (150 - qbStats.throwing - qbStats.awareness) * 85 + pressure * 50

CalculateCatchProbabilities(s) ==
    [s EXCEPT !.receivers =
        [r \in Indices(s.receivers) |->
            [ s.receivers[r] EXCEPT
                !.catchProbability =
                    CatchProb(offense.receivers[r].stats, s.receivers[r].separation,
                              s.receivers[r].currentDepth),
                !.rollMean = RollMean(offense.qb.stats, s.totalPressure) ]]]

-----------------------------------------------------------------------------
(* 7. QB decision *)

\* processQBDecision: the notice check of receiver r (vision roll draw u, noise draw rand)
Noticed(s, r, u, rand) ==
    LET visionRoll == WeightedStatRoll(offense.qb.stats, QBVisionWeights, u)
        noticeThreshold == 70 * RU - s.receivers[r].separation
        noticeRoll == visionRoll + (rand * 20 * (RU \div 1000) - 10 * RU)
    IN  noticeRoll >= noticeThreshold

\* processQBDecision, step 1: the sets of receivers that can end up visible
VisibleSets(s) ==
    LET canSee == {r \in Indices(s.receivers) :
                      \E u \in RollDraws, rand \in ChanceDraws : Noticed(s, r, u, rand)}
        canMiss == {r \in Indices(s.receivers) :
                      \E u \in RollDraws, rand \in ChanceDraws : ~Noticed(s, r, u, rand)}
    IN  {v \in SUBSET canSee : (Indices(s.receivers) \ v) \subseteq canMiss}

\* processQBDecision, step 2: the score of a visible receiver, in thousandths
OptionScore(s, r) ==
    LET trait == TraitOf(offense.qb.trait)
        rx == s.receivers[r]
        wouldGetFirstDown == rx.currentDepth >= s.yardsToGo
        s1 == rx.catchProbability * 10
                + (IF wouldGetFirstDown THEN trait.firstDownBias * 1000
                   ELSE -(s.round * 3 * 1000))
        s2 == IF s.down >= 3 /\ ~wouldGetFirstDown THEN s1 - 15 * 1000 ELSE s1
        s3 == IF rx.catchProbability < trait.openThreshold * 100 THEN s2 - 20 * 1000 ELSE s2
    IN  IF rx.separation < 5 * RU THEN (s3 * trait.aggressiveness) \div 10 ELSE s3

\* the comparison with a later receiver winning a tie
Better_OrEqual(score, bestScore) == score >= bestScore

\* processQBDecision, step 2: if (score > bestScore)
Better(score, bestScore) == score > bestScore

\* processQBDecision, step 2: the loop over the visible receivers, in roster order
RECURSIVE BestOption(_, _, _, _)
BestOption(s, visible, r, best) ==
    IF r > Len(s.receivers) THEN best
    ELSE IF r \in visible /\ Better(OptionScore(s, r), best.score)
         THEN BestOption(s, visible, r + 1, [target |-> r, score |-> OptionScore(s, r)])
         ELSE BestOption(s, visible, r + 1, best)

\* processQBDecision, step 3: throw likelihood in thousandths
ThrowLikelihood(s, best) ==
    LET trait == TraitOf(offense.qb.trait)
    IN  IF best.target # 0
        THEN best.score + s.totalPressure * trait.pressureMultiplier * 50
               + s.round * 8 * 1000
               + (IF s.totalPressure > 70 THEN 30 * 1000 ELSE 0)
        ELSE s.totalPressure * 500 + s.round * 10 * 1000

\* processQBDecision: the decisions it can return, over all draws
ProcessQBDecision(s) ==
    { [ shouldThrow |-> rand * 100 < ThrowLikelihood(s, best), target |-> best.target ] :
        <<best, rand>> \in
            { BestOption(s, v, 1, [target |-> 0, score |-> -999 * 1000]) : v \in VisibleSets(s) }
            \X ChanceDraws }

\* processQBDecision: the decisions it can return together with the
\* visibleReceivers they were taken from
ProcessQBDecisionSeen(s) ==
    { [ visibleReceivers |-> v,
        shouldThrow |-> rand * 100
                          < ThrowLikelihood(s, BestOption(s, v, 1, [target |-> 0,
                                                                    score |-> -999 * 1000])),
        target |-> BestOption(s, v, 1, [target |-> 0, score |-> -999 * 1000]).target ] :
        v \in VisibleSets(s), rand \in ChanceDraws }

-----------------------------------------------------------------------------
(* 9. Yards after catch *)

\* resolveTackleAttempt: margin = tackleRoll - evasionRoll
TackleMargin(carrier, tackler, situation, safetyBonus, evU, tkU) ==
    LET evasionRoll == WeightedStatRoll(carrier, BreakTackleWeights, evU)
        tackleRoll == WeightedStatRoll(tackler, TackleWeights, tkU)
                        + safetyBonus * RU
                        + (IF situation = "catch_point" THEN 5 * RU ELSE 0)
    IN  tackleRoll - evasionRoll

\* the tackle test with the threshold itself counted as a tackle
Tackled_Inclusive(margin) == margin >= -12 * RU

\* resolveTackleAttempt: margin > breakTackleThreshold
Tackled(margin) == margin > -12 * RU

\* resolveTackleAttempt: whether the tackle can succeed / fail, over all draws
TackleOutcomes(carrier, tackler, situation, safetyBonus) ==
    { Tackled(TackleMargin(carrier, tackler, situation, safetyBonus, evU, tkU)) :
        evU \in RollDraws, tkU \in RollDraws }

\* resolveYACPhase: Math.floor(2 + (yacRoll / 100) * 10)
SegmentYards(yacRoll) == (2 * 10 * RU + yacRoll) \div (10 * RU)

\* the yards of a segment ended by a tackle, credited in full
TackledYards_Full(segmentYards) == segmentYards

\* resolveYACPhase: Math.floor(segmentYards * 0.5)
TackledYards(segmentYards) == segmentYards \div 2

\* resolveYACPhase: the touchdown check and the result
CatchResult(s, totalYards) ==
    [ type |-> IF totalYards >= s.yardsFromGoal THEN "touchdown" ELSE "complete",
      yardsGained |-> IF totalYards >= s.yardsFromGoal THEN s.yardsFromGoal ELSE totalYards ]

\* resolveYACPhase: one iteration of the segment loop; a = [totalYards, tackled]
YACSegment(s, r, a, attempt) ==
    LET carrier == offense.receivers[r].stats
        nextTackler == FindNextTackler(s, r, attempt)
        safetyBonus == IF defense.dbs[nextTackler].position = "S" THEN 10 + attempt * 5 ELSE 0
        segments == {SegmentYards(WeightedStatRoll(carrier, YACRunWeights, yacU)) : yacU \in RollDraws}
        tackles == TackleOutcomes(carrier, defense.dbs[nextTackler].stats, "yac", safetyBonus)
    IN  IF nextTackler = 0
        THEN { [totalYards |-> a.totalYards + segmentYards, tackled |-> FALSE] :
                 segmentYards \in segments }
        ELSE { IF tk
               THEN [totalYards |-> a.totalYards + TackledYards(segmentYards), tackled |-> TRUE]
               ELSE [totalYards |-> a.totalYards + segmentYards, tackled |-> FALSE] :
                 segmentYards \in segments, tk \in tackles }

\* resolveYACPhase: attempt < maxYACAttempts && !tackled
RECURSIVE YACLoop(_, _, _, _)
YACLoop(s, r, accs, attempt) ==
    IF attempt >= 3 THEN accs
    ELSE YACLoop(s, r,
                 {a \in accs : a.tackled}
                   \cup UNION {YACSegment(s, r, a, attempt) : a \in {b \in accs : ~b.tackled}},
                 attempt + 1)

ResolveYACPhase(s, r, startYards) ==
    { CatchResult(s, a.totalYards) :
        a \in YACLoop(s, r, {[totalYards |-> startYards, tackled |-> FALSE]}, 0) }

\* resolveCatchAndRun: the results of a caught pass, over all draws
ResolveCatchAndRun(s, r) ==
    LET totalYards == s.receivers[r].currentDepth
        nearestDB == FindNearestDefender(s, r)
        immediate == IF nearestDB # 0 /\ s.receivers[r].separation < 10 * RU
                     THEN TackleOutcomes(offense.receivers[r].stats,
                                         defense.dbs[nearestDB].stats, "catch_point", 0)
                     ELSE {FALSE}
    IN  (IF TRUE \in immediate
         THEN {[type |-> "complete", yardsGained |-> totalYards]} ELSE {})
        \cup (IF FALSE \in immediate THEN ResolveYACPhase(s, r, totalYards) ELSE {})

-----------------------------------------------------------------------------
(* 8. Throw resolution *)

\* qbRoll = -rollMean * ln(Math.random()): any positive real; the values drawn, in hundredths
QbRollDraws == {1, 5000, 9500, 20000}

\* the interception chance with the floor only
ClampIntChance_NoCap(c) == Max(5000, c)

\* resolveIncompletions: Math.max(5, Math.min(35, intChance)), in thousandths
ClampIntChance(c) == Max(5000, Min(35000, c))

\* resolveIncompletions: the interception chance, in thousandths
IntChance(s, r, qbRoll, bestDefender) ==
    LET throwBadness == qbRoll - s.receivers[r].catchProbability
        st == defense.dbs[bestDefender].stats
        catching == IF st.catching = 0 THEN 50 ELSE st.catching
    IN  ClampIntChance( Min(throwBadness * 4, 25 * 1000)
                        + (st.awareness - 60) * 200
                        + (catching - 50) * 100
                        + (IF s.receivers[r].separation < -10 * RU THEN 5000 ELSE 0) )

\* resolveIncompletions with the interception check made at any separation
ResolveIncompletions_AnySeparation(s, r, qbRoll, rand) ==
    LET defenders == FindCoveringDefenders(s, r)
    IN  IF Len(defenders) > 0
           /\ rand * 100 < IntChance(s, r, qbRoll, defenders[1])
        THEN [type |-> "interception", yardsGained |-> 0]
        ELSE [type |-> "incomplete", yardsGained |-> 0]

\* resolveIncompletions: the result of a pass that was not caught
ResolveIncompletions(s, r, qbRoll, rand) ==
    LET defenders == FindCoveringDefenders(s, r)
    IN  IF Len(defenders) > 0 /\ s.receivers[r].separation < 0
           /\ rand * 100 < IntChance(s, r, qbRoll, defenders[1])
        THEN [type |-> "interception", yardsGained |-> 0]
        ELSE [type |-> "incomplete", yardsGained |-> 0]

\* resolveThrow: the results of a throw at target (0 = no target), over all draws
ResolveThrow(s, target) ==
    IF target = 0
    THEN {[type |-> "throwaway", yardsGained |-> 0]}
    ELSE LET caught == {q \in QbRollDraws : q < s.receivers[target].catchProbability}
         IN  (IF caught = {} THEN {} ELSE ResolveCatchAndRun(s, target))
             \cup { ResolveIncompletions(s, target, qbRoll, rand) :
                      qbRoll \in QbRollDraws \ caught, rand \in ChanceDraws }

-----------------------------------------------------------------------------
(* 10. Desperation play *)

\* resolveDesperationPlay: bestReceiver.catchProbability *= 0.7
DesperationDiscount(cp) == (cp * 7) \div 10

\* resolveDesperationPlay: receivers.reduce(best catchProbability), 0 when there is none
RECURSIVE BestReceiver(_, _, _)
BestReceiver(s, r, best) ==
    IF r > Len(s.receivers) THEN best
    ELSE IF s.receivers[r].catchProbability
              > (IF best = 0 THEN 0 ELSE s.receivers[best].catchProbability)
         THEN BestReceiver(s, r + 1, r)
         ELSE BestReceiver(s, r + 1, best)

\* resolveDesperationPlay up to the heave, with the coverage sack not tied to pressure
DesperationChoices_SackAtAnyPressure(s) ==
    LET trait == TraitOf(offense.qb.trait)
        qb == offense.qb.stats
        sacks == IF s.totalPressure >= 0
                 THEN { [kind |-> "result", s |-> s, target |-> 0,
                         result |-> [type |-> "sack",
                                     yardsGained |-> -((5 * 1000 + rand * 5) \div 1000)]] :
                        rand \in ChanceDraws }
                 ELSE {}
        scrambles == IF trait.scrambleBonus # 0
                     THEN { [kind |-> "result", s |-> s, target |-> 0,
                             result |-> [type |-> "scramble",
                                         yardsGained |-> (qb.speed * 100 + qb.agility * 50
                                                            + rand * 5) \div 1000]] :
                            rand \in ChanceDraws }
                     ELSE {}
        bestReceiver == BestReceiver(s, 1, 0)
        heave == IF bestReceiver # 0 /\ s.receivers[bestReceiver].catchProbability > 20 * 100
                 THEN { [kind |-> "throw",
                         s |-> [s EXCEPT !.receivers[bestReceiver].catchProbability =
                                              DesperationDiscount(@)],
                         target |-> bestReceiver, result |-> NoResult] }
                 ELSE { [kind |-> "result", s |-> s, target |-> 0,
                         result |-> [type |-> "throwaway", yardsGained |-> 0]] }
    IN  sacks \cup scrambles \cup heave

\* resolveDesperationPlay up to the heave: either a result, or the receiver to
\* throw at with its catch probability already discounted
DesperationChoices(s) ==
    LET trait == TraitOf(offense.qb.trait)
        qb == offense.qb.stats
        sacks == IF s.totalPressure > 60
                 THEN { [kind |-> "result", s |-> s, target |-> 0,
                         result |-> [type |-> "sack",
                                     yardsGained |-> -((5 * 1000 + rand * 5) \div 1000)]] :
                        rand \in ChanceDraws }
                 ELSE {}
        scrambles == IF trait.scrambleBonus # 0
                     THEN { [kind |-> "result", s |-> s, target |-> 0,
                             result |-> [type |-> "scramble",
                                         yardsGained |-> (qb.speed * 100 + qb.agility * 50
                                                            + rand * 5) \div 1000]] :
                            rand \in ChanceDraws }
                     ELSE {}
        bestReceiver == BestReceiver(s, 1, 0)
        heave == IF bestReceiver # 0 /\ s.receivers[bestReceiver].catchProbability > 20 * 100
                 THEN { [kind |-> "throw",
                         s |-> [s EXCEPT !.receivers[bestReceiver].catchProbability =
                                              DesperationDiscount(@)],
                         target |-> bestReceiver, result |-> NoResult] }
                 ELSE { [kind |-> "result", s |-> s, target |-> 0,
                         result |-> [type |-> "throwaway", yardsGained |-> 0]] }
    IN  sacks \cup scrambles \cup heave

\* resolveDesperationPlay: the results it can return, over all draws
ResolveDesperationPlay(s) ==
    UNION { IF c.kind = "throw" THEN ResolveThrow(c.s, c.target) ELSE {c.result} :
            c \in DesperationChoices(s) }

-----------------------------------------------------------------------------
(* 3. Round loop *)

\* simulatePlay: while (state.round < state.maxRounds && !state.result)
LoopContinues_OneMore(s) == s.round <= s.maxRounds /\ s.result = NoResult

LoopContinues(s) == s.round < s.maxRounds /\ s.result = NoResult

\* simulatePlay: the loop from a set of states at the loop head; the results reachable
RECURSIVE RoundLoop(_)
RoundLoop(ss) ==
    LET looping == {s \in ss : LoopContinues(s)}
        afterLine == UNION {ProcessLineClashesRound([s EXCEPT !.round = @ + 1]) : s \in looping}
        sacked == {s \in afterLine : s.sacked}
        afterCalc == { CalculateCatchProbabilities(t) :
                         t \in UNION {ProcessReceiverClashesRound(s) : s \in afterLine \ sacked} }
        decided == UNION { {[s |-> s, d |-> d] : d \in ProcessQBDecision(s)} : s \in afterCalc }
        thrown == { [s |-> x.s, target |-> x.d.target] : x \in {y \in decided : y.d.shouldThrow} }
        waiting == { [x.s EXCEPT !.pressureBonus = x.s.round * 5] :
                       x \in {y \in decided : ~y.d.shouldThrow} }
    IN  IF ss = {} THEN {}
        ELSE UNION {ResolveDesperationPlay(s) : s \in ss \ looping}
               \cup {ResolveSack(s, rand) : s \in sacked, rand \in ChanceDraws}
               \cup UNION {ResolveThrow(x.s, x.target) : x \in thrown}
               \cup RoundLoop(waiting)

\* simulatePlay: the PlayResults it can return, over all draws
SimulatePlay(off, def, fp, routes) == RoundLoop({InitializePlayState(off, def, fp, routes)})

-----------------------------------------------------------------------------
(* 2.1 Route selection *)

\* selectRoutesForPlay: the assignments it can return: one template of the zone's
\* catalog per receiver, among the templates the offense runs
SelectRoutesForPlay(receivers, yardsFromGoal, yardsToGo, down) ==
    LET zone == FieldZone(yardsFromGoal)
        names == DOMAIN ROUTE_TEMPLATES[zone] \cap offense.playbook
    IN  { [i \in Indices(receivers) |-> ROUTE_TEMPLATES[zone][pick[i]]] :
            pick \in [Indices(receivers) -> names] }

-----------------------------------------------------------------------------
(* 11. Drive *)

NoDrive == [points |-> 0, type |-> "none"]

\* updateFieldPosition
UpdateFieldPosition_NoReset(current, playResult) ==
    [ yardsFromGoal |-> Max(0, current.yardsFromGoal - playResult.yardsGained),
      yardsToGo |-> current.yardsToGo - playResult.yardsGained,
      down |-> current.down + 1 ]

UpdateFieldPosition(current, playResult) ==
    LET newYardsFromGoal == current.yardsFromGoal - playResult.yardsGained
        yardsGainedTowardFirstDown == playResult.yardsGained
    IN  IF yardsGainedTowardFirstDown >= current.yardsToGo
        THEN [yardsFromGoal |-> Max(0, newYardsFromGoal), yardsToGo |-> 10, down |-> 1]
        ELSE [ yardsFromGoal |-> Max(0, newYardsFromGoal),
               yardsToGo |-> current.yardsToGo - yardsGainedTowardFirstDown,
               down |-> current.down + 1 ]

\* the check for drive-ending results without the plays.length >= 15 branch
DriveEnd_NoValve(playResult, fp, nPlays, rand) ==
    IF playResult.type = "touchdown" THEN [points |-> 7, type |-> "touchdown"]
    ELSE IF playResult.type = "interception" THEN [points |-> 0, type |-> "turnover"]
    ELSE IF fp.down > 4
    THEN IF fp.yardsFromGoal <= 40
         THEN IF rand < 950 - (fp.yardsFromGoal + 17) * 10
              THEN [points |-> 3, type |-> "field_goal"]
              ELSE [points |-> 0, type |-> "missed_fg"]
         ELSE [points |-> 0, type |-> "punt"]
    ELSE NoDrive

\* the check for drive-ending results without the interception branch
DriveEnd_InterceptionContinues(playResult, fp, nPlays, rand) ==
    IF playResult.type = "touchdown" THEN [points |-> 7, type |-> "touchdown"]
    ELSE IF fp.down > 4
    THEN IF fp.yardsFromGoal <= 40
         THEN IF rand < 950 - (fp.yardsFromGoal + 17) * 10
              THEN [points |-> 3, type |-> "field_goal"]
              ELSE [points |-> 0, type |-> "missed_fg"]
         ELSE [points |-> 0, type |-> "punt"]
    ELSE IF nPlays >= 15 THEN [points |-> 0, type |-> "punt"]
    ELSE NoDrive

\* the check for drive-ending results with yardsFromGoal < 40 for <= 40
DriveEnd_FortyExclusive(playResult, fp, nPlays, rand) ==
    IF playResult.type = "touchdown" THEN [points |-> 7, type |-> "touchdown"]
    ELSE IF playResult.type = "interception" THEN [points |-> 0, type |-> "turnover"]
    ELSE IF fp.down > 4
    THEN IF fp.yardsFromGoal < 40
         THEN IF rand < 950 - (fp.yardsFromGoal + 17) * 10
              THEN [points |-> 3, type |-> "field_goal"]
              ELSE [points |-> 0, type |-> "missed_fg"]
         ELSE [points |-> 0, type |-> "punt"]
    ELSE IF nPlays >= 15 THEN [points |-> 0, type |-> "punt"]
    ELSE NoDrive

\* the check for drive-ending results with yardsFromGoal <= 45 for <= 40
DriveEnd_FieldGoalFrom45(playResult, fp, nPlays, rand) ==
    IF playResult.type = "touchdown" THEN [points |-> 7, type |-> "touchdown"]
    ELSE IF playResult.type = "interception" THEN [points |-> 0, type |-> "turnover"]
    ELSE IF fp.down > 4
    THEN IF fp.yardsFromGoal <= 45
         THEN IF rand < 950 - (fp.yardsFromGoal + 17) * 10
              THEN [points |-> 3, type |-> "field_goal"]
              ELSE [points |-> 0, type |-> "missed_fg"]
         ELSE [points |-> 0, type |-> "punt"]
    ELSE IF nPlays >= 15 THEN [points |-> 0, type |-> "punt"]
    ELSE NoDrive

\* the check for drive-ending results with the valve at 10 plays
DriveEnd_ValveAtTen(playResult, fp, nPlays, rand) ==
    IF playResult.type = "touchdown" THEN [points |-> 7, type |-> "touchdown"]
    ELSE IF playResult.type = "interception" THEN [points |-> 0, type |-> "turnover"]
    ELSE IF fp.down > 4
    THEN IF fp.yardsFromGoal <= 40
         THEN IF rand < 950 - (fp.yardsFromGoal + 17) * 10
              THEN [points |-> 3, type |-> "field_goal"]
              ELSE [points |-> 0, type |-> "missed_fg"]
         ELSE [points |-> 0, type |-> "punt"]
    ELSE IF nPlays >= 10 THEN [points |-> 0, type |-> "punt"]
    ELSE NoDrive

\* simulatePossession: the check for drive-ending results after a play
\* (rand: the Math.random() of the field-goal attempt)
DriveEnd(playResult, fp, nPlays, rand) ==
    IF playResult.type = "touchdown" THEN [points |-> 7, type |-> "touchdown"]
    ELSE IF playResult.type = "interception" THEN [points |-> 0, type |-> "turnover"]
    ELSE IF fp.down > 4
    THEN IF fp.yardsFromGoal <= 40
         THEN IF rand < 950 - (fp.yardsFromGoal + 17) * 10
              THEN [points |-> 3, type |-> "field_goal"]
              ELSE [points |-> 0, type |-> "missed_fg"]
         ELSE [points |-> 0, type |-> "punt"]
    ELSE IF nPlays >= 15 THEN [points |-> 0, type |-> "punt"]
    ELSE NoDrive

-----------------------------------------------------------------------------
(* Rosters and starting positions the model draws its inputs from *)

\* an AttributeSet with every skill at v
Stats(v) ==
    [ passBlock |-> v, strength |-> v, balance |-> v, awareness |-> v, passRush |-> v,
      acceleration |-> v, speed |-> v, routeRunning |-> v, agility |-> v, release |-> v,
      manCoverage |-> v, catching |-> v, focus |-> v, throwing |-> v, tackling |-> v,
      pursuit |-> v, hitPower |-> v ]

Position(yardsFromGoal, yardsToGo, down) ==
    [yardsFromGoal |-> yardsFromGoal, yardsToGo |-> yardsToGo, down |-> down]

\* balanced QB; two receivers, the first covered man-to-man; two blocked rushers
BaseRoster ==
    [ offense |->
        [ qb |-> [stats |-> Stats(70), trait |-> "balanced"],
          receivers |-> << [stats |-> Stats(70)], [stats |-> Stats(60)] >>,
          oLine |-> << [stats |-> Stats(60)], [stats |-> Stats(60)] >>,
          playbook |-> {"go", "slant", "fade", "endzone_fade"} ],
      defense |->
        [ dLine |-> << [stats |-> Stats(60), engagedOL |-> 1],
                       [stats |-> Stats(60), engagedOL |-> 2] >>,
          dbs |-> << [stats |-> Stats(70), position |-> "CB", covers |-> 1],
                     [stats |-> Stats(70), position |-> "S", covers |-> 0] >> ] ]

\* scrambler QB against three free rushers; a receiver in double coverage and a
\* covered receiver with catching and focus at 0
BlitzRoster ==
    [ offense |->
        [ qb |-> [stats |-> Stats(100), trait |-> "scrambler"],
          receivers |-> << [stats |-> [Stats(50) EXCEPT !.catching = 55, !.focus = 70]],
                           [stats |-> [Stats(50) EXCEPT !.catching = 0, !.focus = 0]] >>,
          oLine |-> << [stats |-> Stats(50)] >>,
          playbook |-> {"go", "out_quick", "endzone_fade"} ],
      defense |->
        [ dLine |-> << [stats |-> Stats(80), engagedOL |-> 0],
                       [stats |-> Stats(80), engagedOL |-> 0],
                       [stats |-> Stats(80), engagedOL |-> 0] >>,
          dbs |-> << [stats |-> Stats(90), position |-> "CB", covers |-> 1],
                     [stats |-> Stats(90), position |-> "S", covers |-> 1],
                     [stats |-> Stats(90), position |-> "CB", covers |-> 2] >> ] ]

\* gunslinger QB; sure-handed receiver left uncovered; overmatched line
MismatchRoster ==
    [ offense |->
        [ qb |-> [stats |-> Stats(40), trait |-> "gunslinger"],
          receivers |-> << [stats |-> Stats(100)] >>,
          oLine |-> << [stats |-> Stats(40)] >>,
          playbook |-> {"hitch", "fade", "endzone_flat"} ],
      defense |->
        [ dLine |-> << [stats |-> Stats(90), engagedOL |-> 1],
                       [stats |-> Stats(40), engagedOL |-> 1] >>,
          dbs |-> << [stats |-> Stats(60), position |-> "S", covers |-> 0] >> ] ]

PlayRosters == {BaseRoster, BlitzRoster, MismatchRoster}

PlayPositions == {Position(35, 10, 4), Position(15, 3, 3), Position(5, 5, 1)}

\* scrambler QB with one free rusher; the receiver is blanketed and never seen
ScrambleRoster ==
    [ offense |->
        [ qb |-> [stats |-> [Stats(90) EXCEPT !.agility = 30], trait |-> "scrambler"],
          receivers |-> << [stats |-> Stats(0)] >>,
          oLine |-> << [stats |-> Stats(50)] >>,
          playbook |-> {"hitch", "out_quick", "endzone_flat"} ],
      defense |->
        [ dLine |-> << [stats |-> Stats(80), engagedOL |-> 0] >>,
          dbs |-> << [stats |-> Stats(100), position |-> "CB", covers |-> 1] >> ] ]

\* balanced QB behind a dominant blocker; a possession receiver (hands and route
\* running, no speed) covered man-to-man
GoalLineRoster ==
    [ offense |->
        [ qb |-> [stats |-> Stats(70), trait |-> "balanced"],
          receivers |-> << [stats |-> [Stats(0) EXCEPT !.routeRunning = 100, !.release = 100,
                                                       !.catching = 80, !.focus = 70]] >>,
          oLine |-> << [stats |-> Stats(100)] >>,
          playbook |-> {"hitch", "out_quick", "endzone_flat"} ],
      defense |->
        [ dLine |-> << [stats |-> Stats(40), engagedOL |-> 1] >>,
          dbs |-> << [stats |-> Stats(40), position |-> "CB", covers |-> 1] >> ] ]

\* balanced QB; sure-handed receiver left uncovered; two rushers slightly stronger
\* than the one blocker they share
TrenchRoster ==
    [ offense |->
        [ qb |-> [stats |-> Stats(40), trait |-> "balanced"],
          receivers |-> << [stats |-> Stats(100)] >>,
          oLine |-> << [stats |-> Stats(50)] >>,
          playbook |-> {"hitch", "fade", "endzone_flat"} ],
      defense |->
        [ dLine |-> << [stats |-> Stats(55), engagedOL |-> 1],
                       [stats |-> Stats(55), engagedOL |-> 1] >>,
          dbs |-> << [stats |-> Stats(60), position |-> "S", covers |-> 0] >> ] ]

LineRosters == {TrenchRoster, ScrambleRoster}

\* evenly matched receiver and defenders, a cornerback in coverage and a safety behind
TackleRoster ==
    [ offense |->
        [ qb |-> [stats |-> Stats(70), trait |-> "balanced"],
          receivers |-> << [stats |-> Stats(85)] >>,
          oLine |-> << [stats |-> Stats(60)] >>,
          playbook |-> {"hitch", "fade", "endzone_flat"} ],
      defense |->
        [ dLine |-> << [stats |-> Stats(60), engagedOL |-> 1] >>,
          dbs |-> << [stats |-> Stats(85), position |-> "CB", covers |-> 1],
                     [stats |-> Stats(85), position |-> "S", covers |-> 0] >> ] ]

\* balanced QB behind one blocker evenly matched with the one rusher; the receiver
\* has sure hands but is blanketed and never seen
GrindRoster ==
    [ offense |->
        [ qb |-> [stats |-> Stats(70), trait |-> "balanced"],
          receivers |-> << [stats |-> [Stats(0) EXCEPT !.catching = 100, !.focus = 100]] >>,
          oLine |-> << [stats |-> Stats(60)] >>,
          playbook |-> {"hitch", "out_quick", "endzone_flat"} ],
      defense |->
        [ dLine |-> << [stats |-> Stats(60), engagedOL |-> 1] >>,
          dbs |-> << [stats |-> Stats(100), position |-> "CB", covers |-> 1] >> ] ]

\* the same teams with no receiver on the field; the cornerback plays deep
NoReceiverRoster ==
    [ offense |-> [GrindRoster.offense EXCEPT !.receivers = << >>],
      defense |-> [GrindRoster.defense EXCEPT
                     !.dbs = << [stats |-> Stats(100), position |-> "S", covers |-> 0] >>] ]

SeriesRosters == {GrindRoster, NoReceiverRoster}

\* three receivers and the whole route book
RouteRoster ==
    [ offense |->
        [ qb |-> [stats |-> Stats(70), trait |-> "balanced"],
          receivers |-> << [stats |-> Stats(70)], [stats |-> Stats(70)], [stats |-> Stats(70)] >>,
          oLine |-> << [stats |-> Stats(60)] >>,
          playbook |-> UNION {DOMAIN ROUTE_TEMPLATES[z] : z \in DOMAIN ROUTE_TEMPLATES} ],
      defense |-> GrindRoster.defense ]

\* two receivers against slow-footed coverage: the first covered by one
\* cornerback, the second by a cornerback and a safety
WeakCoverRoster ==
    [ offense |->
        [ qb |-> [stats |-> Stats(70), trait |-> "balanced"],
          receivers |-> << [stats |-> Stats(50)], [stats |-> Stats(50)] >>,
          oLine |-> << [stats |-> Stats(60)] >>,
          playbook |-> {"slant", "go", "quick_slant", "fade", "endzone_slant", "endzone_fade"} ],
      defense |->
        [ dLine |-> << [stats |-> Stats(60), engagedOL |-> 1] >>,
          dbs |-> << [stats |-> Stats(0), position |-> "CB", covers |-> 1],
                     [stats |-> Stats(10), position |-> "CB", covers |-> 2],
                     [stats |-> Stats(5), position |-> "S", covers |-> 2] >> ] ]

CoverRosters == {WeakCoverRoster, BaseRoster, BlitzRoster}

\* a QB of middling vision behind a dominant blocker; two identical receivers,
\* both uncovered
TwinRoster ==
    [ offense |->
        [ qb |-> [stats |-> Stats(45), trait |-> "balanced"],
          receivers |-> << [stats |-> Stats(80)], [stats |-> Stats(80)] >>,
          oLine |-> << [stats |-> Stats(100)] >>,
          playbook |-> {"hitch", "go", "fade", "endzone_flat"} ],
      defense |->
        [ dLine |-> << [stats |-> Stats(40), engagedOL |-> 1] >>,
          dbs |-> << [stats |-> Stats(60), position |-> "S", covers |-> 0] >> ] ]

DecisionRosters == {TwinRoster, BaseRoster, ScrambleRoster}

DecisionPositions == {Position(35, 10, 3), Position(15, 3, 3)}

TackleRosters == PlayRosters \cup LineRosters \cup {TackleRoster}

\* the possessions simulated: rosters and startingFieldPosition
DriveCases ==
    { [roster |-> ScrambleRoster, start |-> Position(35, 10, 1)],
      [roster |-> GoalLineRoster, start |-> Position(5, 5, 1)] }

-----------------------------------------------------------------------------
(* simulatePlay, one action per phase of the round loop *)

playVars == <<state, phase, decision>>

driveVars == <<fieldPosition, startPosition, playsLength, lastPlay, sumYards,
               endedEarlier, driveResult>>

rosterVars == <<offense, defense>>

InitPlay ==
    /\ \E ro \in PlayRosters : offense = ro.offense /\ defense = ro.defense
    /\ fieldPosition \in PlayPositions
    /\ \E routes \in SelectRoutesForPlay(offense.receivers, fieldPosition.yardsFromGoal,
                                         fieldPosition.yardsToGo, fieldPosition.down) :
          state = InitializePlayState(offense, defense, fieldPosition, routes)
    /\ phase = "line_clash"
    /\ decision = NoDecision
    /\ startPosition = fieldPosition
    /\ playsLength = 0
    /\ lastPlay = NoResult
    /\ sumYards = 0
    /\ endedEarlier = FALSE
    /\ driveResult = NoDrive
    /\ clash = NoClash

\* state.round++; processLineClashesRound(state)
LineClash ==
    /\ phase = "line_clash"
    /\ LoopContinues(state)
    /\ state' \in ProcessLineClashesRound([state EXCEPT !.round = @ + 1])
    /\ phase' = IF state'.sacked THEN "sack" ELSE "separation"
    /\ UNCHANGED <<decision, driveVars, rosterVars, clash>>

\* if (state.sacked) { state.result = resolveSack(state); break; }
Sack ==
    /\ phase = "sack"
    /\ \E rand \in ChanceDraws : state' = [state EXCEPT !.result = ResolveSack(state, rand)]
    /\ phase' = "done"
    /\ UNCHANGED <<decision, driveVars, rosterVars, clash>>

\* processReceiverClashesRound(state)
Separation ==
    /\ phase = "separation"
    /\ state' \in ProcessReceiverClashesRound(state)
    /\ phase' = "catch_calc"
    /\ UNCHANGED <<decision, driveVars, rosterVars, clash>>

\* calculateCatchProbabilities(state)
CatchCalc ==
    /\ phase = "catch_calc"
    /\ state' = CalculateCatchProbabilities(state)
    /\ phase' = "qb_decision"
    /\ UNCHANGED <<decision, driveVars, rosterVars, clash>>

\* the QB decision with the next iteration entered past the line clash
QBDecision_SkipsLineClash ==
    /\ phase = "qb_decision"
    /\ \E d \in ProcessQBDecision(state) :
          /\ decision' = d
          /\ IF d.shouldThrow
             THEN state' = state /\ phase' = "resolve_throw"
             ELSE /\ state' = [state EXCEPT !.pressureBonus = state.round * 5]
                  /\ phase' = "separation"
    /\ UNCHANGED <<driveVars, rosterVars, clash>>

\* throwDecision = processQBDecision(state); without a throw, next iteration
QBDecision ==
    /\ phase = "qb_decision"
    /\ \E d \in ProcessQBDecision(state) :
          /\ decision' = d
          /\ IF d.shouldThrow
             THEN state' = state /\ phase' = "resolve_throw"
             ELSE /\ state' = [state EXCEPT !.pressureBonus = state.round * 5]
                  /\ phase' = "line_clash"
    /\ UNCHANGED <<driveVars, rosterVars, clash>>

\* state.result = resolveThrow(state, throwDecision.target)
Throw ==
    /\ phase = "resolve_throw"
    /\ \E res \in ResolveThrow(state, decision.target) : state' = [state EXCEPT !.result = res]
    /\ phase' = "done"
    /\ UNCHANGED <<decision, driveVars, rosterVars, clash>>

\* the loop ended without a result: resolveDesperationPlay(state), up to its heave
Desperation ==
    /\ phase = "line_clash"
    /\ ~LoopContinues(state)
    /\ state.result = NoResult
    /\ \E c \in DesperationChoices(state) :
          IF c.kind = "throw"
          THEN /\ state' = c.s
               /\ decision' = [shouldThrow |-> TRUE, target |-> c.target]
               /\ phase' = "desperation_throw"
          ELSE /\ state' = [state EXCEPT !.result = c.result]
               /\ decision' = decision
               /\ phase' = "done"
    /\ UNCHANGED <<driveVars, rosterVars, clash>>

\* resolveDesperationPlay: return resolveThrow(state, bestReceiver)
DesperationThrow ==
    /\ phase = "desperation_throw"
    /\ \E res \in ResolveThrow(state, decision.target) : state' = [state EXCEPT !.result = res]
    /\ phase' = "done"
    /\ UNCHANGED <<decision, driveVars, rosterVars, clash>>

NextPlay ==
    \/ LineClash
    \/ Sack
    \/ Separation
    \/ CatchCalc
    \/ QBDecision
    \/ Throw
    \/ Desperation
    \/ DesperationThrow

\* one play, phase by phase
PlaySpec == InitPlay /\ [][NextPlay]_vars

-----------------------------------------------------------------------------
(* simulatePlay with processLineClashesRound one lineman at a time *)

InitLine ==
    /\ \E ro \in LineRosters : offense = ro.offense /\ defense = ro.defense
    /\ fieldPosition \in PlayPositions
    /\ \E routes \in SelectRoutesForPlay(offense.receivers, fieldPosition.yardsFromGoal,
                                         fieldPosition.yardsToGo, fieldPosition.down) :
          state = InitializePlayState(offense, defense, fieldPosition, routes)
    /\ phase = "line_clash"
    /\ decision = NoDecision
    /\ startPosition = fieldPosition
    /\ playsLength = 0
    /\ lastPlay = NoResult
    /\ sumYards = 0
    /\ endedEarlier = FALSE
    /\ driveResult = NoDrive
    /\ clash = NoClash

\* the start of a round with every lineman back on his feet
LineStart_StandsUp ==
    /\ phase = "line_clash"
    /\ LoopContinues(state)
    /\ state' = [state EXCEPT !.round = @ + 1,
                              !.oLine = [i \in Indices(state.oLine) |->
                                           [state.oLine[i] EXCEPT !.knockedDown = FALSE]],
                              !.dLine = [i \in Indices(state.dLine) |->
                                           [state.dLine[i] EXCEPT !.knockedDown = FALSE]]]
    /\ clash' = [NoClash EXCEPT !.i = 1]
    /\ phase' = "line_loop"
    /\ UNCHANGED <<decision, driveVars, rosterVars>>

\* state.round++; processLineClashesRound: let totalPressure = 0
LineStart ==
    /\ phase = "line_clash"
    /\ LoopContinues(state)
    /\ state' = [state EXCEPT !.round = @ + 1]
    /\ clash' = [NoClash EXCEPT !.i = 1]
    /\ phase' = "line_loop"
    /\ UNCHANGED <<decision, driveVars, rosterVars>>

\* processLineClashesRound: one iteration of for (const dl of state.dLine)
LineIteration ==
    /\ phase = "line_loop"
    /\ clash.i <= Len(state.dLine)
    /\ LET i == clash.i
           kind == IF state.dLine[i].knockedDown THEN "knocked_down"
                   ELSE IF Unblocked(state, i) THEN "unblocked" ELSE "engaged"
       IN  \E margin \in (IF kind = "engaged" THEN ClashMargins(state, i) ELSE {0}) :
           \E b \in ClashLinemanAt([s |-> state, total |-> clash.total], i, {margin}) :
              /\ state' = b.s
              /\ clash' = [kind |-> kind, i |-> i + 1, total |-> b.total, dl |-> i,
                           margin |-> margin]
    /\ UNCHANGED <<phase, decision, driveVars, rosterVars>>

\* processLineClashesRound: state.totalPressure = Math.min(totalPressure, 100)
LineEnd ==
    /\ phase = "line_loop"
    /\ clash.i > Len(state.dLine)
    /\ state' = [state EXCEPT !.totalPressure = ClampPressure(clash.total)]
    /\ clash' = NoClash
    /\ phase' = IF state.sacked THEN "sack" ELSE "separation"
    /\ UNCHANGED <<decision, driveVars, rosterVars>>

NextLine ==
    \/ LineStart
    \/ LineIteration
    \/ LineEnd
    \/ Sack
    \/ Separation
    \/ CatchCalc
    \/ QBDecision
    \/ Throw
    \/ Desperation
    \/ DesperationThrow

\* one play, the line clash lineman by lineman
LineSpec == InitLine /\ [][NextLine]_vars

-----------------------------------------------------------------------------
(* resolveTackleAttempt on its own *)

InitTackle ==
    /\ \E ro \in TackleRosters : offense = ro.offense /\ defense = ro.defense
    /\ fieldPosition = Position(35, 10, 1)
    /\ state = [round |-> 0, result |-> NoResult]
    /\ phase = "tackle"
    /\ decision = NoDecision
    /\ startPosition = fieldPosition
    /\ playsLength = 0
    /\ lastPlay = NoResult
    /\ sumYards = 0
    /\ endedEarlier = FALSE
    /\ driveResult = NoDrive
    /\ clash = NoClash

\* one call of resolveTackleAttempt as resolveCatchAndRun makes it (the covering
\* defender at the catch point) or as resolveYACPhase makes it (the tackler of YAC
\* attempt 0..2, a safety with its bonus)
TackleAttempt ==
    /\ phase = "tackle"
    /\ \E r \in Indices(offense.receivers), k \in Indices(defense.dbs),
          situation \in {"catch_point", "yac"}, attempt \in 0 .. 2,
          evU \in RollDraws, tkU \in RollDraws :
          LET safetyBonus == IF situation = "yac" /\ defense.dbs[k].position = "S"
                             THEN 10 + attempt * 5 ELSE 0
              margin == TackleMargin(offense.receivers[r].stats, defense.dbs[k].stats,
                                     situation, safetyBonus, evU, tkU)
          IN  /\ situation = "catch_point" => (attempt = 0 /\ defense.dbs[k].covers = r)
              /\ situation = "yac" => k = FindNextTackler(state, r, attempt)
              /\ clash' = [kind |-> "tackle", carrier |-> r, tackler |-> k,
                           situation |-> situation, safetyBonus |-> safetyBonus,
                           margin |-> margin, tackled |-> Tackled(margin)]
    /\ UNCHANGED <<state, phase, decision, driveVars, rosterVars>>

NextTackle == TackleAttempt

\* tackle attempts over rosters and draws
TackleSpec == InitTackle /\ [][NextTackle]_vars

-----------------------------------------------------------------------------
(* calculateWeightedRoll of the economy module on its own *)

\* ECONOMY_CONSTANTS.CORE_ATTRIBUTE_SKILL_INFLUENCE, in hundredths
CORE_ATTRIBUTE_SKILL_INFLUENCE ==
    [ strength |-> [passBlock |-> 25, passRush |-> 25, tackling |-> 20, hitPower |-> 30,
                    balance |-> 20],
      speed |-> [speed |-> 40, acceleration |-> 35, pursuit |-> 25],
      agility |-> [agility |-> 40, routeRunning |-> 20, release |-> 25, balance |-> 15],
      intelligence |-> [awareness |-> 35, routeRunning |-> 15, focus |-> 25, throwing |-> 20] ]

CoreAttributes == {"strength", "speed", "agility", "intelligence"}

clamp(value, min, max) == Max(min, Min(max, value))

\* calculateEffectiveStat: the influence of the core attributes in cores on stat
RECURSIVE TotalInfluence(_, _)
TotalInfluence(stat, cores) ==
    IF cores = {} THEN 0
    ELSE LET c == CHOOSE x \in cores : TRUE
         IN  (IF stat \in DOMAIN CORE_ATTRIBUTE_SKILL_INFLUENCE[c]
              THEN CORE_ATTRIBUTE_SKILL_INFLUENCE[c][stat] ELSE 0)
             + TotalInfluence(stat, cores \ {c})

RECURSIVE WeightedCoreContribution(_, _, _)
WeightedCoreContribution(player, stat, cores) ==
    IF cores = {} THEN 0
    ELSE LET c == CHOOSE x \in cores : TRUE
         IN  (IF stat \in DOMAIN CORE_ATTRIBUTE_SKILL_INFLUENCE[c]
              THEN player.coreAttributes[c] * CORE_ATTRIBUTE_SKILL_INFLUENCE[c][stat] ELSE 0)
             + WeightedCoreContribution(player, stat, cores \ {c})

\* calculateEffectiveStat: 0 for a stat the player does not have, the base stat when
\* no core attribute influences it, else the rounded and clamped blend
calculateEffectiveStat(player, stat) ==
    IF stat \notin DOMAIN player.stats THEN 0
    ELSE LET baseStat == player.stats[stat]
             totalInfluence == TotalInfluence(stat, CoreAttributes)
         IN  IF totalInfluence = 0 THEN baseStat
             ELSE clamp((baseStat * (100 - totalInfluence)
                           + WeightedCoreContribution(player, stat, CoreAttributes) + 50) \div 100,
                        0, 99)

\* calculateWeightedRoll: the loop over Object.entries(statWeights), in hundredths
RECURSIVE EffectiveTotal(_, _, _)
EffectiveTotal(player, statWeights, stats) ==
    IF stats = {} THEN 0
    ELSE LET stat == CHOOSE x \in stats : TRUE
         IN  calculateEffectiveStat(player, stat) * statWeights[stat]
             + EffectiveTotal(player, statWeights, stats \ {stat})

\* calculateWeightedRoll with the default variance 0.2: what the call hands back, a
\* thrown error (the function has no throw statement) or the number returned
calculateWeightedRoll(player, statWeights, u) ==
    [ error |-> "none",
      value |-> EffectiveTotal(player, statWeights, DOMAIN statWeights) * RandomFactor(u) ]

\* stat names a weight table may carry
RollStats == {"speed", "catching", "routeRunning"}

\* weight tables over every subset of RollStats, the empty table included
RollTables == UNION { [names -> {30, 70}] : names \in SUBSET RollStats }

\* players with all, some and none of the stats of RollStats
RollPlayers ==
    { [ stats |-> [speed |-> 80, catching |-> 60, routeRunning |-> 70],
        coreAttributes |-> [strength |-> 50, speed |-> 90, agility |-> 40, intelligence |-> 60] ],
      [ stats |-> [catching |-> 60],
        coreAttributes |-> [strength |-> 50, speed |-> 90, agility |-> 40, intelligence |-> 60] ],
      [ stats |-> [passBlock |-> 75, strength |-> 85],
        coreAttributes |-> [strength |-> 85, speed |-> 30, agility |-> 30, intelligence |-> 50] ] }

InitRoll ==
    /\ offense = BaseRoster.offense
    /\ defense = BaseRoster.defense
    /\ fieldPosition = Position(35, 10, 1)
    /\ state = [round |-> 0, result |-> NoResult]
    /\ phase = "roll"
    /\ decision = NoDecision
    /\ startPosition = fieldPosition
    /\ playsLength = 0
    /\ lastPlay = NoResult
    /\ sumYards = 0
    /\ endedEarlier = FALSE
    /\ driveResult = NoDrive
    /\ clash = NoClash

\* one call of calculateWeightedRoll
WeightedRoll ==
    /\ phase = "roll"
    /\ \E player \in RollPlayers, statWeights \in RollTables, u \in RollDraws :
          clash' = [kind |-> "roll", player |-> player, statWeights |-> statWeights,
                    outcome |-> calculateWeightedRoll(player, statWeights, u)]
    /\ UNCHANGED <<state, phase, decision, driveVars, rosterVars>>

NextRoll == WeightedRoll

\* weighted rolls over players, weight tables and draws
RollSpec == InitRoll /\ [][NextRoll]_vars

-----------------------------------------------------------------------------
(* selectRoutesForPlay on its own *)

\* one line of scrimmage in each field zone
RoutePositions == {Position(5, 5, 1), Position(15, 10, 1), Position(35, 10, 1)}

InitRoutes ==
    /\ offense = RouteRoster.offense
    /\ defense = RouteRoster.defense
    /\ fieldPosition \in RoutePositions
    /\ state = [round |-> 0, result |-> NoResult]
    /\ phase = "routes"
    /\ decision = NoDecision
    /\ startPosition = fieldPosition
    /\ playsLength = 0
    /\ lastPlay = NoResult
    /\ sumYards = 0
    /\ endedEarlier = FALSE
    /\ driveResult = NoDrive
    /\ clash = NoClash

\* one call of selectRoutesForPlay
SelectRoutes ==
    /\ phase = "routes"
    /\ \E routes \in SelectRoutesForPlay(offense.receivers, fieldPosition.yardsFromGoal,
                                         fieldPosition.yardsToGo, fieldPosition.down) :
          clash' = [kind |-> "routes", zone |-> FieldZone(fieldPosition.yardsFromGoal),
                    routes |-> routes]
    /\ UNCHANGED <<state, phase, decision, driveVars, rosterVars>>

NextRoutes == SelectRoutes

\* route selections over the field zones
RouteSpec == InitRoutes /\ [][NextRoutes]_vars

-----------------------------------------------------------------------------
(* processReceiverClashesRound, one receiver at a time *)

InitCover ==
    /\ \E ro \in CoverRosters : offense = ro.offense /\ defense = ro.defense
    /\ fieldPosition \in {Position(35, 10, 1), Position(15, 10, 1)}
    /\ state = [round |-> 0, result |-> NoResult]
    /\ phase = "cover"
    /\ decision = NoDecision
    /\ startPosition = fieldPosition
    /\ playsLength = 0
    /\ lastPlay = NoResult
    /\ sumYards = 0
    /\ endedEarlier = FALSE
    /\ driveResult = NoDrive
    /\ clash = NoClash

\* the loop body of processReceiverClashesRound for one receiver in one round of a
\* play; the rolls drawn are kept next to the separation they lead to
ReceiverClash ==
    /\ phase = "cover"
    /\ \E routes \in SelectRoutesForPlay(offense.receivers, fieldPosition.yardsFromGoal,
                                         fieldPosition.yardsToGo, fieldPosition.down),
          round \in 1 .. 5, r \in Indices(offense.receivers), wrU \in RollDraws :
          LET s == [InitializePlayState(offense, defense, fieldPosition, routes)
                       EXCEPT !.round = round]
              ds == FindCoveringDefenders(s, r)
              isCrossing == routes[r].crossing[round]
              isBreakRound == routes[r].breakRound = round
          IN  \E us \in [Indices(ds) -> RollDraws] :
                clash' = [kind |-> "cover", receiver |-> r, defenders |-> Len(ds),
                          isCrossing |-> isCrossing,
                          receiverRoll |-> ReceiverRoll(offense.receivers[r].stats, isCrossing,
                                                        isBreakRound, wrU),
                          adjustedRolls |-> [k \in Indices(ds) |->
                                               AdjustedRoll(defense.dbs[ds[k]].stats,
                                                            isCrossing, us[k])],
                          separation |-> ClashReceiver(s, r, wrU, us).receivers[r].separation]
    /\ UNCHANGED <<state, phase, decision, driveVars, rosterVars>>

NextCover == ReceiverClash

\* receiver clashes over rosters, routes, rounds and draws
CoverSpec == InitCover /\ [][NextCover]_vars

-----------------------------------------------------------------------------
(* calculateCatchProbabilities, one receiver at a time *)

\* separations at and next to every threshold, in whole and fractional yards
CatchSeparations ==
    { y * RU + e : y \in {-40, -10, -3, 0, 3, 5, 10, 20, 30}, e \in {-1, 0, 1} }

\* receivers by catching and focus
CatchStats == { [Stats(50) EXCEPT !.catching = c, !.focus = f] : c \in {0, 50, 100},
                                                                  f \in {0, 70, 100} }

\* route depths on both sides of 15 yards
CatchDepths == {2, 15, 16, 35}

InitCatch ==
    /\ offense = BaseRoster.offense
    /\ defense = BaseRoster.defense
    /\ fieldPosition = Position(35, 10, 1)
    /\ state = [round |-> 0, result |-> NoResult]
    /\ phase = "catch"
    /\ decision = NoDecision
    /\ startPosition = fieldPosition
    /\ playsLength = 0
    /\ lastPlay = NoResult
    /\ sumYards = 0
    /\ endedEarlier = FALSE
    /\ driveResult = NoDrive
    /\ clash = NoClash

\* the loop body of calculateCatchProbabilities for one receiver
CatchThreshold ==
    /\ phase = "catch"
    /\ \E st \in CatchStats, sep \in CatchSeparations, depth \in CatchDepths :
          clash' = [kind |-> "catch", stats |-> st, separation |-> sep,
                    currentDepth |-> depth, catchProbability |-> CatchProb(st, sep, depth)]
    /\ UNCHANGED <<state, phase, decision, driveVars, rosterVars>>

NextCatch == CatchThreshold

\* catch thresholds over receivers, separations and depths
CatchSpec == InitCatch /\ [][NextCatch]_vars

-----------------------------------------------------------------------------
(* simulatePlay with the visible receivers of processQBDecision kept *)

InitDecision ==
    /\ \E ro \in DecisionRosters : offense = ro.offense /\ defense = ro.defense
    /\ fieldPosition \in DecisionPositions
    /\ \E routes \in SelectRoutesForPlay(offense.receivers, fieldPosition.yardsFromGoal,
                                         fieldPosition.yardsToGo, fieldPosition.down) :
          state = InitializePlayState(offense, defense, fieldPosition, routes)
    /\ phase = "line_clash"
    /\ decision = NoDecision
    /\ startPosition = fieldPosition
    /\ playsLength = 0
    /\ lastPlay = NoResult
    /\ sumYards = 0
    /\ endedEarlier = FALSE
    /\ driveResult = NoDrive
    /\ clash = NoClash

\* throwDecision = processQBDecision(state), its visibleReceivers kept in clash
QBDecisionSeen ==
    /\ phase = "qb_decision"
    /\ \E d \in ProcessQBDecisionSeen(state) :
          /\ decision' = [shouldThrow |-> d.shouldThrow, target |-> d.target]
          /\ clash' = [kind |-> "decision", round |-> state.round,
                       visibleReceivers |-> d.visibleReceivers]
          /\ IF d.shouldThrow
             THEN state' = state /\ phase' = "resolve_throw"
             ELSE /\ state' = [state EXCEPT !.pressureBonus = state.round * 5]
                  /\ phase' = "line_clash"
    /\ UNCHANGED <<driveVars, rosterVars>>

NextDecision ==
    \/ LineClash
    \/ Sack
    \/ Separation
    \/ CatchCalc
    \/ QBDecisionSeen
    \/ Throw
    \/ Desperation
    \/ DesperationThrow

\* one play, phase by phase, with the QB's view of the field
DecisionSpec == InitDecision /\ [][NextDecision]_vars

-----------------------------------------------------------------------------
(* resolveYACPhase, one segment per step *)

\* catch depths the run starts from
YacStartYards == {2, 10}

InitYac ==
    /\ \E ro \in TackleRosters : offense = ro.offense /\ defense = ro.defense
    /\ fieldPosition = Position(35, 10, 1)
    /\ state = [round |-> 0, result |-> NoResult, yardsFromGoal |-> 35]
    /\ phase = "yac_start"
    /\ decision = NoDecision
    /\ startPosition = fieldPosition
    /\ playsLength = 0
    /\ lastPlay = NoResult
    /\ sumYards = 0
    /\ endedEarlier = FALSE
    /\ driveResult = NoDrive
    /\ clash = NoClash

\* resolveYACPhase(state, receiver, startYards, existingEvents): totalYards =
\* startYards, tackled = false, attempt = 0
YacStart ==
    /\ phase = "yac_start"
    /\ \E r \in Indices(offense.receivers), startYards \in YacStartYards :
          clash' = [kind |-> "yac", receiver |-> r, attempt |-> 0, totalYards |-> startYards,
                    tackled |-> FALSE, event |-> "start", segmentYards |-> 0, tackler |-> 0]
    /\ phase' = "yac"
    /\ UNCHANGED <<state, decision, driveVars, rosterVars>>

\* one iteration of for (attempt = 0; attempt < maxYACAttempts && !tackled; attempt++)
YacAttempt ==
    /\ phase = "yac"
    /\ clash.attempt < 3
    /\ ~clash.tackled
    /\ \E yacU \in RollDraws, evU \in RollDraws, tkU \in RollDraws :
          LET carrier == offense.receivers[clash.receiver].stats
              segmentYards == SegmentYards(WeightedStatRoll(carrier, YACRunWeights, yacU))
              nextTackler == FindNextTackler(state, clash.receiver, clash.attempt)
              safetyBonus == IF defense.dbs[nextTackler].position = "S"
                             THEN 10 + clash.attempt * 5 ELSE 0
              tackled == Tackled(TackleMargin(carrier, defense.dbs[nextTackler].stats,
                                              "yac", safetyBonus, evU, tkU))
          IN  clash' =
                IF nextTackler = 0
                THEN [clash EXCEPT !.attempt = @ + 1, !.totalYards = @ + segmentYards,
                                   !.event = "open_field", !.segmentYards = segmentYards,
                                   !.tackler = 0]
                ELSE IF tackled
                THEN [clash EXCEPT !.attempt = @ + 1,
                                   !.totalYards = @ + TackledYards(segmentYards),
                                   !.tackled = TRUE,
                                   !.event = "tackled", !.segmentYards = segmentYards,
                                   !.tackler = nextTackler]
                ELSE [clash EXCEPT !.attempt = @ + 1, !.totalYards = @ + segmentYards,
                                   !.event = "broken_tackle", !.segmentYards = segmentYards,
                                   !.tackler = nextTackler]
    /\ UNCHANGED <<state, phase, decision, driveVars, rosterVars>>

\* the loop is over: the touchdown check and the returned result
YacEnd ==
    /\ phase = "yac"
    /\ ~(clash.attempt < 3 /\ ~clash.tackled)
    /\ state' = [state EXCEPT !.result = CatchResult(state, clash.totalYards)]
    /\ phase' = "done"
    /\ UNCHANGED <<clash, decision, driveVars, rosterVars>>

NextYac ==
    \/ YacStart
    \/ YacAttempt
    \/ YacEnd

\* runs after the catch over rosters, catch depths and draws
YacSpec == InitYac /\ [][NextYac]_vars

-----------------------------------------------------------------------------
(* simulatePossession *)

Init ==
    /\ \E c \in DriveCases :
          /\ offense = c.roster.offense
          /\ defense = c.roster.defense
          /\ fieldPosition = c.start
    /\ startPosition = fieldPosition
    /\ state = [round |-> 0, result |-> NoResult]
    /\ phase = "idle"
    /\ decision = NoDecision
    /\ playsLength = 0
    /\ lastPlay = NoResult
    /\ sumYards = 0
    /\ endedEarlier = FALSE
    /\ driveResult = NoDrive
    /\ clash = NoClash

\* one iteration of while (!driveResult): selectRoutesForPlay, simulatePlay,
\* plays.push(playResult), updateFieldPosition, check for drive-ending results
PlayIteration ==
    /\ phase = "idle"
    /\ driveResult = NoDrive
    /\ \E routes \in SelectRoutesForPlay(offense.receivers, fieldPosition.yardsFromGoal,
                                         fieldPosition.yardsToGo, fieldPosition.down) :
       \E playResult \in SimulatePlay(offense, defense, fieldPosition, routes) :
       \E rand \in ChanceDraws :
          /\ lastPlay' = playResult
          /\ playsLength' = playsLength + 1
          /\ fieldPosition' = UpdateFieldPosition(fieldPosition, playResult)
          /\ sumYards' = sumYards + playResult.yardsGained
          /\ driveResult' = DriveEnd(playResult, fieldPosition', playsLength', rand)
    /\ endedEarlier' = (endedEarlier \/ lastPlay.type \in {"touchdown", "interception"})
    /\ UNCHANGED <<startPosition, playVars, rosterVars, clash>>

Next == PlayIteration

\* one possession, play by play
Spec == Init /\ [][Next]_vars

-----------------------------------------------------------------------------
(* simulatePossession with every play run phase by phase *)

InitSeries ==
    /\ \E ro \in SeriesRosters : offense = ro.offense /\ defense = ro.defense
    /\ fieldPosition = Position(35, 10, 3)
    /\ startPosition = fieldPosition
    /\ state = [round |-> 0, result |-> NoResult]
    /\ phase = "idle"
    /\ decision = NoDecision
    /\ playsLength = 0
    /\ lastPlay = NoResult
    /\ sumYards = 0
    /\ endedEarlier = FALSE
    /\ driveResult = NoDrive
    /\ clash = NoClash

\* the loop head with a PlayState kept from the play before
StartPlay_ReusesState ==
    /\ phase = "idle"
    /\ driveResult = NoDrive
    /\ \E routes \in SelectRoutesForPlay(offense.receivers, fieldPosition.yardsFromGoal,
                                         fieldPosition.yardsToGo, fieldPosition.down) :
          state' = IF playsLength = 0
                   THEN InitializePlayState(offense, defense, fieldPosition, routes)
                   ELSE [state EXCEPT !.round = 0, !.result = NoResult, !.sacked = FALSE,
                                      !.yardsFromGoal = fieldPosition.yardsFromGoal,
                                      !.yardsToGo = fieldPosition.yardsToGo,
                                      !.down = fieldPosition.down]
    /\ phase' = "line_clash"
    /\ decision' = NoDecision
    /\ UNCHANGED <<driveVars, rosterVars, clash>>

\* while (!driveResult): selectRoutesForPlay; simulatePlay: initializePlayState
StartPlay ==
    /\ phase = "idle"
    /\ driveResult = NoDrive
    /\ \E routes \in SelectRoutesForPlay(offense.receivers, fieldPosition.yardsFromGoal,
                                         fieldPosition.yardsToGo, fieldPosition.down) :
          state' = InitializePlayState(offense, defense, fieldPosition, routes)
    /\ phase' = "line_clash"
    /\ decision' = NoDecision
    /\ UNCHANGED <<driveVars, rosterVars, clash>>

\* simulatePlay returned: plays.push(playResult), updateFieldPosition, check for
\* drive-ending results
EndPlay ==
    /\ phase = "done"
    /\ \E rand \in ChanceDraws :
          /\ lastPlay' = state.result
          /\ playsLength' = playsLength + 1
          /\ fieldPosition' = UpdateFieldPosition(fieldPosition, state.result)
          /\ sumYards' = sumYards + state.result.yardsGained
          /\ driveResult' = DriveEnd(state.result, fieldPosition', playsLength', rand)
    /\ endedEarlier' = (endedEarlier \/ lastPlay.type \in {"touchdown", "interception"})
    /\ phase' = "idle"
    /\ UNCHANGED <<startPosition, state, decision, rosterVars, clash>>

NextSeries ==
    \/ StartPlay
    \/ LineClash
    \/ Sack
    \/ Separation
    \/ CatchCalc
    \/ QBDecision
    \/ Throw
    \/ Desperation
    \/ DesperationThrow
    \/ EndPlay

\* one possession, every play phase by phase
SeriesSpec == InitSeries /\ [][NextSeries]_vars

-----------------------------------------------------------------------------
(* Properties *)

PlayResultTypes ==
    {"sack", "throwaway", "incomplete", "interception", "complete", "touchdown", "scramble"}

\* the loop body can run: selectRoutesForPlay returns an assignment and simulatePlay,
\* run with it, returns a PlayResult
CanPlay ==
    \E routes \in SelectRoutesForPlay(offense.receivers, fieldPosition.yardsFromGoal,
                                      fieldPosition.yardsToGo, fieldPosition.down) :
        SimulatePlay(offense, defense, fieldPosition, routes) # {}

\* C1: simulatePossession terminates: while no DriveResult is set the loop body can
\* run and each run adds one play to a play list that never exceeds 15 plays; the
\* DriveResult is set once, and the play list then holds at least 1 and at most 15
\* plays.
C1_DriveTerminates ==
    /\ [](driveResult = NoDrive => CanPlay)
    /\ [][driveResult = NoDrive => playsLength' = playsLength + 1]_vars
    /\ [](playsLength \in 0 .. 15)
    /\ [](driveResult # NoDrive => playsLength \in 1 .. 15)
    /\ [][driveResult # NoDrive => driveResult' = driveResult]_vars

\* C1: a drive ended by the safety valve, on its 15th play
C1_Witness ==
    /\ driveResult.type = "punt"
    /\ playsLength = 15
    /\ fieldPosition.down <= 4

\* C2: the round counter starts at 0, grows by exactly 1 per loop iteration and
\* never exceeds 5; the play cannot stop before it has a result; the result is set
\* once, never overwritten, and its type is one of the seven play result types.
C2_RoundsAndResult ==
    /\ state.round = 0 /\ state.result = NoResult
    /\ [](state.round \in 0 .. 5)
    /\ [][state'.round = state.round
            \/ (phase = "line_clash" /\ state'.round = state.round + 1)]_vars
    /\ []((phase = "done") = (state.result # NoResult))
    /\ [](phase # "done" => ENABLED NextPlay)
    /\ [](state.result # NoResult => state.result.type \in PlayResultTypes)
    /\ [][state.result # NoResult => state'.result = state.result]_vars

\* C2: a play that ran all five rounds and ended in the desperation fallback
C2_Witness ==
    /\ phase = "done"
    /\ state.round = 5
    /\ state.result.type = "scramble"

\* C3: totalPressure is within [0,100] after every line-clash round.
C3_PressureInRange == state.totalPressure \in 0 .. 100

\* C3: three unblocked rushers contributing 40 each, capped at 100
C3_Witness ==
    /\ Len(state.dLine) = 3
    /\ \A i \in Indices(state.dLine) : state.dLine[i].pressureContribution = 40
    /\ state.totalPressure = 100

\* the states in which receiver catch probabilities are read: by processQBDecision,
\* by resolveThrow and by resolveDesperationPlay (before and after its discount)
ReadsCatchProbability ==
    \/ phase \in {"qb_decision", "resolve_throw", "desperation_throw"}
    \/ phase = "line_clash" /\ ~LoopContinues(state) /\ state.result = NoResult

\* C4: every receiver's catchProbability is within [5,95] (hundredths: 500..9500)
\* wherever it is read, the desperation x0.7 discount included.
C4_CatchProbabilityInRange ==
    ReadsCatchProbability =>
        \A r \in Indices(state.receivers) :
            state.receivers[r].catchProbability \in 500 .. 9500

\* C4: a desperation heave at a receiver whose catch probability, above 20 when
\* the heave was chosen, is below 20 after the discount
C4_Witness ==
    /\ phase = "desperation_throw"
    /\ LET rx == state.receivers[decision.target]
       IN  /\ rx.catchProbability < 2000
           /\ rx.catchProbability =
                 DesperationDiscount(CatchProb(offense.receivers[decision.target].stats,
                                               rx.separation, rx.currentDepth))

\* C5: after any sequence of plays, yardsFromGoal is never negative and equals
\* max(0, starting yardsFromGoal - sum of yardsGained of the plays so far).
C5_YardsFromGoalIsClampedSum ==
    /\ fieldPosition.yardsFromGoal >= 0
    /\ fieldPosition.yardsFromGoal = Max(0, startPosition.yardsFromGoal - sumYards)

\* C6: a caught pass is a touchdown with yardsGained = yardsFromGoal when the
\* accumulated yards reach yardsFromGoal, and otherwise complete with yardsGained
\* (the accumulated yards) strictly less than yardsFromGoal.
C6_CaughtPassResult ==
    phase = "done" =>
        /\ state.result.type = "touchdown" => state.result.yardsGained = state.yardsFromGoal
        /\ state.result.type = "complete" => state.result.yardsGained < state.yardsFromGoal

\* C7: in every DriveResult, points is 7 exactly for a touchdown outcome ending on a
\* touchdown play, 3 exactly for a field goal and 0 otherwise; the outcome is turnover
\* exactly when the last play is an interception; no earlier play is a touchdown or
\* an interception.
C7_ScoringAndTurnover ==
    driveResult # NoDrive =>
        /\ driveResult.points \in {0, 3, 7}
        /\ (driveResult.points = 7)
              = (driveResult.type = "touchdown" /\ lastPlay.type = "touchdown")
        /\ (driveResult.points = 3) = (driveResult.type = "field_goal")
        /\ (driveResult.type = "turnover") = (lastPlay.type = "interception")
        /\ ~endedEarlier

\* C7: a touchdown drive of several plays
C7_Witness ==
    /\ driveResult = [points |-> 7, type |-> "touchdown"]
    /\ lastPlay.type = "touchdown"
    /\ playsLength >= 2

\* the fourth-down play of a drive at down = 4 with yardsFromGoal = 35 was neither a
\* touchdown nor an interception nor a first down (read on the step of that play)
FailedFourthDownAt35 ==
    /\ driveResult = NoDrive
    /\ fieldPosition.down = 4
    /\ fieldPosition.yardsFromGoal = 35
    /\ lastPlay'.type \notin {"touchdown", "interception"}
    /\ lastPlay'.yardsGained < fieldPosition.yardsToGo

\* C8 (as the code has it): a drive at down = 4 with yardsFromGoal = 35 first runs the
\* fourth-down play; when that play is no touchdown, interception or first down, the
\* drive resolves to field_goal or missed_fg if the play lost at most 5 yards
\* (yardsFromGoal <= 40 after it) and to punt if it lost more.
C8_FourthDownAt35 ==
    [][FailedFourthDownAt35 =>
          IF lastPlay'.yardsGained >= -5
          THEN driveResult'.type \in {"field_goal", "missed_fg"}
          ELSE driveResult'.type = "punt"]_vars

\* C8: a field-goal attempt after a fourth-down play without gain from the 35
C8_Witness ==
    /\ fieldPosition = Position(35, 10, 5)
    /\ lastPlay.yardsGained = 0
    /\ driveResult.type \in {"field_goal", "missed_fg"}

\* C8 (as stated): a drive at down = 4 with yardsFromGoal = 35 never resolves to punt.
C8_NeverPuntFrom35 ==
    [][(driveResult = NoDrive /\ fieldPosition.down = 4 /\ fieldPosition.yardsFromGoal = 35)
          => driveResult'.type # "punt"]_vars

\* C9: a drive ends as field_goal or missed_fg only after a play that left down > 4
\* and yardsFromGoal <= 40; as punt only after a play that left down > 4 and
\* yardsFromGoal > 40, or after a 15th play that was no touchdown, no interception
\* and did not leave down > 4.
C9_FourthDownOutcomes ==
    /\ driveResult.type \in {"field_goal", "missed_fg"} =>
          /\ playsLength >= 1
          /\ fieldPosition.down > 4
          /\ fieldPosition.yardsFromGoal <= 40
    /\ driveResult.type = "punt" =>
          \/ fieldPosition.down > 4 /\ fieldPosition.yardsFromGoal > 40
          \/ /\ playsLength = 15
             /\ lastPlay.type \notin {"touchdown", "interception"}
             /\ fieldPosition.down <= 4

\* C9: a field-goal attempt from exactly the 40
C9_Witness ==
    /\ driveResult.type \in {"field_goal", "missed_fg"}
    /\ fieldPosition.down > 4
    /\ fieldPosition.yardsFromGoal = 40

\* C10: every play is simulated with down in 1..4 and yardsToGo >= 1; a play that
\* gains at least yardsToGo resets to 1st-and-10, any other play adds 1 to down and
\* subtracts its yardsGained from yardsToGo.
C10_DownAndDistance ==
    /\ [](driveResult = NoDrive =>
            fieldPosition.down \in 1 .. 4 /\ fieldPosition.yardsToGo >= 1)
    /\ [][driveResult = NoDrive =>
            IF lastPlay'.yardsGained >= fieldPosition.yardsToGo
            THEN fieldPosition'.down = 1 /\ fieldPosition'.yardsToGo = 10
            ELSE /\ fieldPosition'.down = fieldPosition.down + 1
                 /\ fieldPosition'.yardsToGo
                       = fieldPosition.yardsToGo - lastPlay'.yardsGained]_vars

\* C10: after a sack, more than 10 yards to go on the next down
C10_Witness ==
    /\ driveResult = NoDrive
    /\ lastPlay.type = "sack"
    /\ fieldPosition.down \in 2 .. 4
    /\ fieldPosition.yardsToGo > 10

\* C11: within a play totalPressure never decreases from one round to the next: the
\* line clash of every round r in 2..5 leaves totalPressure at least what round
\* r-1 left.
C11_PressureNeverDecreases ==
    [][(state'.round = state.round + 1 /\ state'.round \in 2 .. 5)
          => state'.totalPressure >= state.totalPressure]_vars


\* C12: a sack is triggered only by the line clash of a round; once one is triggered
\* the play ends in that same round with a result of type sack and yardsGained in
\* -10..-5, and no separation clash, catch calculation, QB decision or throw is
\* performed in that round or afterwards.
C12_SackEndsPlay ==
    /\ [][(state'.sacked /\ ~state.sacked) => (phase = "line_clash" /\ phase' = "sack")]_vars
    /\ [](state.sacked => phase \in {"sack", "done"})
    /\ [][state.sacked =>
            /\ phase = "sack" /\ phase' = "done"
            /\ state'.round = state.round
            /\ state'.receivers = state.receivers
            /\ state'.result.type = "sack"
            /\ state'.result.yardsGained \in -10 .. -5]_vars
    /\ []((state.sacked /\ phase = "done") => state.result.type = "sack")

\* C12: a sack by an engaged lineman in a round after the first, for the full 10 yards
C12_Witness ==
    /\ phase = "done"
    /\ state.sacked
    /\ state.round >= 2
    /\ FindEngagedOLineman(state, state.sackingPlayer) # 0
    /\ state.result = [type |-> "sack", yardsGained |-> -10]
    /\ \A r \in Indices(state.receivers) :
          state.receivers[r].currentDepth = state.receivers[r].route.depth[state.round - 1]


\* the separation margins receiver r can get from the separation clash of the
\* current round
RoundSeparations(r) ==
    { ClashReceiver(state, r, wrU, us).receivers[r].separation :
        wrU \in RollDraws, us \in [Indices(FindCoveringDefenders(state, r)) -> RollDraws] }

\* C13: in a round without a sack the phases run in the order line clash,
\* separation clash, catch-probability calculation, QB decision; a throw is
\* resolved only right after the QB decision of the same round, on the depths,
\* separation margins and catch thresholds computed in that round; without a
\* throw the next round starts again at the line clash.
C13_PhaseOrder ==
    /\ [][/\ phase' = "separation" =>
               (phase = "line_clash" /\ state'.round = state.round + 1 /\ ~state'.sacked)
          /\ phase' = "catch_calc" => (phase = "separation" /\ state'.round = state.round)
          /\ phase' = "qb_decision" => (phase = "catch_calc" /\ state'.round = state.round)
          /\ phase' = "resolve_throw" =>
               (phase = "qb_decision" /\ state' = state /\ decision'.shouldThrow)
          /\ (phase = "qb_decision" /\ phase' # "resolve_throw") =>
               (phase' = "line_clash" /\ ~decision'.shouldThrow /\ state'.round = state.round)
          /\ phase = "resolve_throw" =>
               (phase' = "done" /\ state'.result # NoResult /\ state'.round = state.round)
          /\ (phase = "line_clash" /\ state.round < 5) =>
               (state'.round = state.round + 1 /\ phase' \in {"separation", "sack"})]_vars
    /\ [](phase = "resolve_throw" =>
            \A r \in Indices(state.receivers) :
              /\ state.receivers[r].currentDepth = state.receivers[r].route.depth[state.round]
              /\ state.receivers[r].separation \in RoundSeparations(r)
              /\ state.receivers[r].catchProbability =
                    CatchProb(offense.receivers[r].stats, state.receivers[r].separation,
                              state.receivers[r].currentDepth)
              /\ state.receivers[r].rollMean = RollMean(offense.qb.stats, state.totalPressure))

\* C13: a throw at a covered receiver in the third round or later, after rounds
\* in which the quarterback held the ball
C13_Witness ==
    /\ phase = "resolve_throw"
    /\ state.round >= 3
    /\ decision.target # 0
    /\ Len(FindCoveringDefenders(state, decision.target)) > 0


\* the step that enters resolveDesperationPlay
EntersDesperation == phase = "line_clash" /\ phase' \in {"done", "desperation_throw"}

\* C14: the desperation fallback is entered only after round 5 ended with no sack and
\* no throw; its result is a sack only if totalPressure > 60, a scramble only if the
\* quarterback's trait carries scrambleBonus, a throw only to the receiver with the
\* highest catch threshold, only if that threshold exceeds 20 and resolved with the
\* threshold multiplied by 0.7, and otherwise a throwaway for 0 yards.
C14_DesperationFallback ==
    /\ [][EntersDesperation =>
            /\ state.round = 5 /\ ~state.sacked /\ ~decision.shouldThrow
            /\ state.result = NoResult
            /\ phase' = "done" =>
                 /\ state'.result.type \in {"sack", "scramble", "throwaway"}
                 /\ state'.result.type = "sack" => state.totalPressure > 60
                 /\ state'.result.type = "scramble" =>
                      TraitOf(offense.qb.trait).scrambleBonus # 0
                 /\ state'.result.type = "throwaway" =>
                      /\ state'.result.yardsGained = 0
                      /\ \A r \in Indices(state.receivers) :
                            state.receivers[r].catchProbability <= 2000
            /\ phase' = "desperation_throw" =>
                 LET t == decision'.target
                 IN  /\ t \in Indices(state.receivers)
                     /\ \A r \in Indices(state.receivers) :
                           state.receivers[r].catchProbability
                             <= state.receivers[t].catchProbability
                     /\ state.receivers[t].catchProbability > 2000
                     /\ state'.receivers[t].catchProbability * 10
                           \in { state.receivers[t].catchProbability * 7 - k : k \in 0 .. 9 }
                     /\ state' = [state EXCEPT !.receivers[t].catchProbability =
                                                  state'.receivers[t].catchProbability]]_vars
    /\ [][phase = "desperation_throw" =>
            /\ phase' = "done"
            /\ state'.result \in ResolveThrow(state, decision.target)
            /\ state'.result.type \in {"complete", "touchdown", "incomplete", "interception"}]_vars
    /\ [](state.result.type = "scramble" => state.round = 5)

\* C14: a coverage sack out of the desperation fallback: round 5 over, no lineman
\* triggered a sack, totalPressure above 60
C14_Witness ==
    /\ phase = "done"
    /\ state.round = 5
    /\ ~state.sacked
    /\ state.result.type = "sack"
    /\ state.totalPressure > 60


\* C15: for an engaged pairing with OL and DL both standing, the pressure
\* contribution is the first matching row of the table: margin > 20 gives 35,
\* > 10 gives 25, > 5 gives 15, > 2 gives 10, > -2 gives 5, > -10 gives 0 and
\* <= -10 gives 0.
C15_MarginTable ==
    (phase = "line_loop" /\ clash.kind = "engaged") =>
        state.dLine[clash.dl].pressureContribution =
            IF clash.margin > 20 * RU THEN 35
            ELSE IF clash.margin > 10 * RU THEN 25
            ELSE IF clash.margin > 5 * RU THEN 15
            ELSE IF clash.margin > 2 * RU THEN 10
            ELSE IF clash.margin > -2 * RU THEN 5
            ELSE IF clash.margin > -10 * RU THEN 0
            ELSE 0


\* C16: for every engaged pairing a margin greater than 18 yields a pressure
\* contribution of exactly 35 (the row that carries the sack roll), a margin of
\* -10 or less yields a contribution of 0, and the DL is knocked down only at a
\* margin of -10 or less.
C16_DominantMargins ==
    (phase = "line_loop" /\ clash.kind = "engaged") =>
        /\ clash.margin > 18 * RU => state.dLine[clash.dl].pressureContribution = 35
        /\ clash.margin <= -10 * RU => state.dLine[clash.dl].pressureContribution = 0
        /\ state.dLine[clash.dl].knockedDown => clash.margin <= -10 * RU


\* the lineman the loop of processLineClashesRound is about to process is standing
\* and its engaged OL does not exist or is knocked down
NextRusherIsFree ==
    /\ phase = "line_loop"
    /\ clash.i <= Len(state.dLine)
    /\ ~state.dLine[clash.i].knockedDown
    /\ \/ defense.dLine[clash.i].engagedOL = 0
       \/ state.oLine[defense.dLine[clash.i].engagedOL].knockedDown

\* C17: a standing defensive lineman whose engaged OL does not exist or is knocked
\* down contributes exactly 40 pressure in that round without a clash roll; the
\* only sack its iteration can trigger is its own; no knockdown of an OL or of the
\* DL is applied.
C17_UnblockedRusher ==
    [][NextRusherIsFree =>
         /\ state'.dLine[clash.i].pressureContribution = 40
         /\ clash'.total = clash.total + 40
         /\ clash'.kind = "unblocked" /\ clash'.margin = 0
         /\ state'.oLine = state.oLine
         /\ \A k \in Indices(state.dLine) : state'.dLine[k].knockedDown = state.dLine[k].knockedDown
         /\ state'.sacked \in {state.sacked, TRUE}
         /\ state'.sackingPlayer \in {state.sackingPlayer, clash.i}]_vars

\* C17: the second rusher finds the shared blocker knocked down in this round's loop,
\* contributes 40 and triggers the sack
C17_Witness ==
    /\ phase = "line_loop"
    /\ clash.kind = "unblocked"
    /\ defense.dLine[clash.dl].engagedOL # 0
    /\ state.oLine[defense.dLine[clash.dl].engagedOL].knockedDown
    /\ state.dLine[clash.dl].pressureContribution = 40
    /\ state.sacked
    /\ state.sackingPlayer = clash.dl


ResolvingThrow == phase \in {"resolve_throw", "desperation_throw"}

\* C19: an interception is produced only by a thrown pass that can miss (some
\* qbRoll is not under the catch threshold), whose target has at least one covering
\* defender and separation < 0; a throw with no target, at an uncovered receiver or
\* at a receiver with separation >= 0 never ends in an interception.
C19_InterceptionOnlyInCoverage ==
    /\ [][(state.result = NoResult /\ state'.result.type = "interception") =>
            /\ ResolvingThrow
            /\ decision.target # 0
            /\ Len(FindCoveringDefenders(state, decision.target)) >= 1
            /\ state.receivers[decision.target].separation < 0
            /\ \E qbRoll \in QbRollDraws :
                  qbRoll >= state.receivers[decision.target].catchProbability]_vars
    /\ [][(/\ ResolvingThrow
           /\ \/ decision.target = 0
              \/ Len(FindCoveringDefenders(state, decision.target)) = 0
              \/ state.receivers[decision.target].separation >= 0)
            => state'.result.type \in {"throwaway", "incomplete", "complete", "touchdown"}]_vars

\* C19: an interception of a pass thrown into coverage
C19_Witness ==
    /\ phase = "done"
    /\ state.result.type = "interception"
    /\ Len(FindCoveringDefenders(state, decision.target)) >= 1
    /\ state.receivers[decision.target].separation < 0


\* the qbRolls with which the pass being resolved is not caught
MissedRolls ==
    {qbRoll \in QbRollDraws : qbRoll >= state.receivers[decision.target].catchProbability}

\* a pass at a covered receiver with separation < 0 is being resolved
ThrowIntoCoverage ==
    /\ ResolvingThrow
    /\ decision.target # 0
    /\ Len(FindCoveringDefenders(state, decision.target)) >= 1
    /\ state.receivers[decision.target].separation < 0

\* C20: whenever a pass to a covered receiver with separation < 0 is not caught, the
\* interception check is made with intChance within [5,35] (thousandths:
\* 5000..35000), and both interception and plain incomplete are possible results.
C20_InterceptionChance ==
    ThrowIntoCoverage =>
        \A qbRoll \in MissedRolls :
            LET t == decision.target
                bestDefender == FindCoveringDefenders(state, t)[1]
            IN  /\ IntChance(state, t, qbRoll, bestDefender) \in 5000 .. 35000
                /\ { ResolveIncompletions(state, t, qbRoll, rand).type : rand \in ChanceDraws }
                      = {"interception", "incomplete"}

\* C20: a missed pass at a receiver beaten by 15 or more, the interception chance at
\* its cap of 35
C20_Witness ==
    /\ ThrowIntoCoverage
    /\ state.receivers[decision.target].separation <= -15 * RU
    /\ \E qbRoll \in MissedRolls :
          IntChance(state, decision.target, qbRoll,
                    FindCoveringDefenders(state, decision.target)[1]) = 35000


\* the PlayResults the next simulatePlay call of the drive can return with the
\* routes given
NextPlayResults(routes) == SimulatePlay(offense, defense, fieldPosition, routes)

\* C21: two runs of simulatePossession on identical rosters and starting
\* FieldPosition (the function takes no other input: no seed can be passed) produce
\* the same PlayResults: at every loop head, with the routes fixed, simulatePlay
\* can return one PlayResult only.
C21_SameInputsSameResults ==
    (phase = "idle" /\ driveResult = NoDrive) =>
        \A routes \in SelectRoutesForPlay(offense.receivers, fieldPosition.yardsFromGoal,
                                           fieldPosition.yardsToGo, fieldPosition.down) :
            Cardinality(NextPlayResults(routes)) = 1


NoPresentStat == DOMAIN clash.statWeights \cap DOMAIN clash.player.stats = {}

\* C23: a weighted stat roll whose weight table is empty or names no attribute the
\* player has fails with InvalidWeightTable and returns no number
C23_InvalidWeightTable ==
    (clash.kind = "roll" /\ NoPresentStat) => clash.outcome.error = "InvalidWeightTable"


\* a position group the engine needs is empty
EmptyGroup ==
    \/ offense.receivers = << >>
    \/ offense.oLine = << >>
    \/ defense.dLine = << >>
    \/ defense.dbs = << >>

\* C24: a play or drive for a team with an empty required position group (no
\* receivers, say) fails fast with EmptyRosterError: no PlayResult and no
\* DriveResult is ever produced
C24_EmptyRosterFailsFast ==
    EmptyGroup => (state.result = NoResult /\ playsLength = 0 /\ driveResult = NoDrive)


\* the deepest point of a route template
MaxDepth(route) == Max(Max(Max(route.depth[1], route.depth[2]), Max(route.depth[3], route.depth[4])),
                       route.depth[5])

\* C25: in every field zone, with three or more receivers, the selected routes come
\* from the zone's catalog and include at least one short route (deepest point
\* under 6 yards), one medium (6 to 15) and one deep (over 15)
C25_RouteDiversity ==
    (clash.kind = "routes" /\ Len(offense.receivers) >= 3) =>
        /\ \A i \in Indices(clash.routes) :
              \E name \in DOMAIN ROUTE_TEMPLATES[clash.zone] :
                  clash.routes[i] = ROUTE_TEMPLATES[clash.zone][name]
        /\ \E i \in Indices(clash.routes) : MaxDepth(clash.routes[i]) < 6
        /\ \E i \in Indices(clash.routes) :
              MaxDepth(clash.routes[i]) >= 6 /\ MaxDepth(clash.routes[i]) <= 15
        /\ \E i \in Indices(clash.routes) : MaxDepth(clash.routes[i]) > 15


\* the drive began at 1st-and-10
FirstAndTen == startPosition.down = 1 /\ startPosition.yardsToGo = 10

\* the last play ended the drive by one of the regular checks
RegularEnd ==
    \/ lastPlay.type \in {"touchdown", "interception"}
    \/ fieldPosition.down > 4

\* C26 as stated: the 15-play safety valve never triggers: every drive started at
\* 1st-and-10 ends by touchdown, interception or the down > 4 decision, before a
\* 15th play completes
C26_ValveNeverTriggers ==
    (FirstAndTen /\ driveResult # NoDrive) => (RegularEnd /\ playsLength < 15)

\* C26, amended: a drive started at 1st-and-10 never runs past 15 plays; it ends
\* by touchdown, interception or the down > 4 decision, or else by the safety
\* valve, which triggers exactly when the 15th play completes without any of the
\* three and ends the drive as a punt worth 0 points
C26_ValveOnlyAtFifteen ==
    FirstAndTen =>
        /\ playsLength <= 15
        /\ (driveResult = NoDrive /\ playsLength >= 1) => (~RegularEnd /\ playsLength < 15)
        /\ (driveResult # NoDrive /\ ~RegularEnd) =>
              (playsLength = 15 /\ driveResult = [points |-> 0, type |-> "punt"])

\* a drive from 1st-and-10 short of the goal line, ended by the valve
C26_Witness ==
    /\ FirstAndTen
    /\ driveResult = [points |-> 0, type |-> "punt"]
    /\ playsLength = 15
    /\ ~RegularEnd
    /\ fieldPosition.yardsFromGoal > 0
    /\ sumYards = startPosition.yardsFromGoal - fieldPosition.yardsFromGoal


\* the receivers nobody covers
Uncovered(s) == {r \in Indices(s.receivers) : Len(FindCoveringDefenders(s, r)) = 0}

\* C27: a receiver with no covering defender leaves processReceiverClashesRound
\* with separation exactly +30, whatever his attributes, the crossing flag and the
\* break round, and no roll enters the result: every draw gives the same state
C27_UncoveredSeparation ==
    /\ [](phase = "separation" =>
            \A r \in Uncovered(state) :
                \A wrU \in RollDraws :
                    ClashReceiver(state, r, wrU, << >>).receivers[r].separation = 30 * RU)
    /\ [][phase = "separation" =>
            \A r \in Uncovered(state) : state'.receivers[r].separation = 30 * RU]_vars

\* an uncovered receiver at +30 in the round his route breaks
C27_Witness ==
    /\ phase = "catch_calc"
    /\ \E r \in Uncovered(state) :
          /\ state.receivers[r].separation = 30 * RU
          /\ state.receivers[r].route.breakRound = state.round


\* the largest element of a non-empty sequence of rolls
MaxRoll(rolls) == CHOOSE m \in {rolls[k] : k \in Indices(rolls)} :
                      \A k \in Indices(rolls) : rolls[k] <= m

\* C28: the separation of a covered receiver is receiverRoll - bestDefenderRoll,
\* bestDefenderRoll being the maximum of the covering defenders' adjusted rolls,
\* plus 10 when more than one defender covers, also when every adjusted roll is
\* negative
C28_SeparationFormula ==
    (clash.kind = "cover" /\ clash.defenders >= 1) =>
        clash.separation = clash.receiverRoll
                             - (MaxRoll(clash.adjustedRolls)
                                  + (IF clash.defenders > 1 THEN 10 * RU ELSE 0))


C30_ThrowTarget ==
    /\ [](phase = "resolve_throw" =>
            /\ decision.shouldThrow
            /\ clash.kind = "decision" /\ clash.round = state.round
            /\ \A r \in clash.visibleReceivers :
                  \E u \in RollDraws, rand \in ChanceDraws : Noticed(state, r, u, rand)
            /\ decision.target = 0 <=> clash.visibleReceivers = {}
            /\ decision.target # 0 =>
                  /\ decision.target \in clash.visibleReceivers
                  /\ \A r \in clash.visibleReceivers :
                        /\ OptionScore(state, r) <= OptionScore(state, decision.target)
                        /\ r < decision.target =>
                              OptionScore(state, r) < OptionScore(state, decision.target))
    /\ [][(phase = "resolve_throw" /\ clash.visibleReceivers = {}) =>
            (phase' = "done" /\ state'.result = [type |-> "throwaway", yardsGained |-> 0])]_vars

\* a throw with both receivers visible and level on score goes to the first
C30_Witness ==
    /\ phase = "resolve_throw"
    /\ clash.visibleReceivers = {1, 2}
    /\ OptionScore(state, 1) = OptionScore(state, 2)
    /\ decision.target = 1


\* C31: every YAC segment is worth between 2 and 12 yards inclusive, for every
\* ball carrier and every draw of the weighted roll
C31_SegmentRange ==
    (clash.kind = "yac" /\ clash.event # "start") => clash.segmentYards \in 2 .. 12


\* C32: the YAC phase makes at most 3 segment attempts and adds no yards after
\* the first successful tackle, which credits half of its segment's yards rounded
\* down; a broken tackle, or a segment with no tackler left, credits the whole
\* segment and the run goes on to the next attempt
C32_YacSegments ==
    /\ [](clash.kind = "yac" =>
            /\ clash.attempt \in 0 .. 3
            /\ clash.tackled <=> clash.event = "tackled"
            /\ clash.event = "open_field" <=> (clash.attempt >= 1 /\ clash.tackler = 0)
            /\ (phase = "done" /\ ~clash.tackled) => clash.attempt = 3
            /\ phase = "done" => state.result = CatchResult(state, clash.totalYards))
    /\ [][(clash.kind = "yac" /\ clash' # clash) =>
            /\ ~clash.tackled
            /\ clash'.attempt = clash.attempt + 1
            /\ clash'.event = "tackled" =>
                  clash'.totalYards = clash.totalYards + clash'.segmentYards \div 2
            /\ clash'.event \in {"broken_tackle", "open_field"} =>
                  /\ clash'.totalYards = clash.totalYards + clash'.segmentYards
                  /\ phase' = "yac"
                  /\ clash'.attempt < 3 => ENABLED YacAttempt]_vars

\* a run ended by a tackle on its second segment, after a whole first segment:
\* the 7-yard segment is credited at 3 yards and nothing is added after it
C32_Witness ==
    /\ phase = "done"
    /\ clash.kind = "yac"
    /\ clash.attempt = 2
    /\ clash.event = "tackled"
    /\ clash.segmentYards = 7
    /\ clash.totalYards = 12
    /\ state.result = [type |-> "complete", yardsGained |-> 12]


\* the loop of processLineClashesRound is about to process a lineman
AtLineman == phase = "line_loop" /\ clash.i <= Len(state.dLine)

\* C33: within a play a knockedDown flag, once set, is never cleared; a
\* knocked-down DL contributes 0 pressure and triggers no sack in any later
\* iteration, and a standing DL whose engaged OL has been knocked down is
\* processed as unblocked
C33_KnockdownSticks ==
    [][ /\ \A i \in Indices(state.dLine) :
              state.dLine[i].knockedDown => state'.dLine[i].knockedDown
        /\ \A i \in Indices(state.oLine) :
              state.oLine[i].knockedDown => state'.oLine[i].knockedDown
        /\ (AtLineman /\ state.dLine[clash.i].knockedDown) =>
              /\ clash'.kind = "knocked_down"
              /\ state'.dLine[clash.i].pressureContribution = 0
              /\ clash'.total = clash.total
              /\ state'.sacked = state.sacked
              /\ state'.sackingPlayer = state.sackingPlayer
        /\ (AtLineman /\ ~state.dLine[clash.i].knockedDown
                      /\ defense.dLine[clash.i].engagedOL # 0
                      /\ state.oLine[defense.dLine[clash.i].engagedOL].knockedDown) =>
              /\ clash'.kind = "unblocked"
              /\ state'.dLine[clash.i].pressureContribution = 40
              /\ clash'.total = clash.total + 40 ]_vars

\* in a later round the first rusher comes free past the blocker knocked down in
\* an earlier round, while the second rusher is still down
C33_Witness ==
    /\ phase = "line_loop"
    /\ state.round >= 2
    /\ clash.dl = 1
    /\ clash.kind = "unblocked"
    /\ defense.dLine[1].engagedOL # 0
    /\ state.oLine[defense.dLine[1].engagedOL].knockedDown
    /\ state.dLine[2].knockedDown


\* weight times attribute value of the player, summed over the stats the table
\* names, in hundredths
RECURSIVE AttributeTotal(_, _, _)
AttributeTotal(player, statWeights, stats) ==
    IF stats = {} THEN 0
    ELSE LET stat == CHOOSE x \in stats : TRUE
         IN  (IF stat \in DOMAIN player.stats THEN player.stats[stat] * statWeights[stat] ELSE 0)
             + AttributeTotal(player, statWeights, stats \ {stat})

\* C34: a weighted stat roll with the default variance 0.2 returns a value between
\* 0.8 and 1.2 times the weighted total of the attributes the table names (weight
\* times attribute value, summed)
C34_RollWithinVariance ==
    clash.kind = "roll" =>
        LET weightedTotal == AttributeTotal(clash.player, clash.statWeights,
                                            DOMAIN clash.statWeights)
        IN  /\ clash.outcome.value >= weightedTotal * 800
            /\ clash.outcome.value <= weightedTotal * 1200

-----------------------------------------------------------------------------
(* FootballEconomyEngine: teams, fame budgets, rosters and fame banks *)

STARTING_FAME == 1000

\* the number of operations of one economy run
MaxOps == 7

TeamIds == {"t1", "t2"}
PlayerIds == {"p1", "p2"}

\* the players handed to the engine: a young one with a high multiplier and an
\* old one far past the cliff; baseHypeMultiplier in thousandths
EconomyPlayers ==
    [p \in PlayerIds |->
        IF p = "p1"
        THEN [id |-> "p1", overall |-> 50, age |-> 24, peakAge |-> 27, potentialGrade |-> 1,
              hypeData |-> [baseHypeMultiplier |-> 1600, yearsBeforePrimeCliff |-> 2,
                            accumulatedFameBank |-> 0, seasonFameEarnings |-> 0]]
        ELSE [id |-> "p2", overall |-> 80, age |-> 41, peakAge |-> 28, potentialGrade |-> 0,
              hypeData |-> [baseHypeMultiplier |-> 1000, yearsBeforePrimeCliff |-> 2,
                            accumulatedFameBank |-> 0, seasonFameEarnings |-> 0]]]

FameAmounts == {0, 400}
GameStats ==
    { [catches |-> 0, touchdowns |-> 0, tackles |-> 0, sacks |-> 0, interceptions |-> 0,
       passesDefended |-> 0, yardsGained |-> 0],
      [catches |-> 1, touchdowns |-> 1, tackles |-> 0, sacks |-> 0, interceptions |-> 0,
       passesDefended |-> 0, yardsGained |-> 0] }

\* multiplier * Math.pow(1 - 0.25, years), in millionths
RECURSIVE Declined(_, _)
Declined(multiplier, years) ==
    IF years = 0 THEN multiplier ELSE Declined((multiplier * 3) \div 4, years - 1)

calculateCliffAge(player) == player.peakAge - player.hypeData.yearsBeforePrimeCliff

\* current multiplier in thousandths: the base before the cliff, then 25% less per
\* year, never below the floor 0.1
calculateCurrentMultiplier(player) ==
    LET cliffAge == calculateCliffAge(player)
        yearsAfterCliff == player.age - cliffAge
    IN  IF player.age < cliffAge THEN player.hypeData.baseHypeMultiplier
        ELSE Max(100, Declined(player.hypeData.baseHypeMultiplier * 1000, yearsAfterCliff)
                          \div 1000)

\* raw performance points in halves (a yard gained is worth 0.5)
calculateRawPerformancePoints(stats) ==
    2 * (stats.catches * 5 + stats.touchdowns * 50 + stats.tackles * 3 + stats.sacks * 15
         + stats.interceptions * 25 + stats.passesDefended * 8)
    + stats.yardsGained

\* Math.floor(rawPerformancePoints * multiplier), rawPoints in halves
calculateEarnedFame(rawPoints, player) ==
    (rawPoints * calculateCurrentMultiplier(player)) \div 2000

\* Math.max(50, Math.floor(baseCost)) of the overall rating times the hype, age and
\* potential factors, computed as one exact fraction
calculatePlayerCost(player) ==
    LET currentMultiplier == calculateCurrentMultiplier(player)
        hypeAdjustment == 2000 + (currentMultiplier - 1000)
        ageAdjustment == IF player.age >= 30 THEN 100 - (player.age - 30) * 10
                         ELSE IF player.age <= 24 THEN 115
                         ELSE 100
        potential == 10 + player.potentialGrade
    IN  Max(50, (player.overall * 10 * hypeAdjustment * ageAdjustment * potential)
                    \div (2000 * 100 * 10))

NoTeam == [created |-> FALSE, fameBudget |-> 0, roster |-> <<>>]
NoOperation == [op |-> "none", teamId |-> "none", playerId |-> "none", amount |-> 0,
                success |-> FALSE]
Operation(op, teamId, playerId, amount, success) ==
    [op |-> op, teamId |-> teamId, playerId |-> playerId, amount |-> amount,
     success |-> success]

\* roster.findIndex(p => p.id === playerId), 0 when there is none
RECURSIVE findIndex(_, _, _)
findIndex(roster, playerId, i) ==
    IF i > Len(roster) THEN 0
    ELSE IF roster[i] = playerId THEN i
    ELSE findIndex(roster, playerId, i + 1)

\* roster.splice(index, 1)
splice(roster, index) ==
    [i \in 1 .. Len(roster) - 1 |-> IF i < index THEN roster[i] ELSE roster[i + 1]]

InitEconomy ==
    /\ offense = BaseRoster.offense
    /\ defense = BaseRoster.defense
    /\ fieldPosition = Position(35, 10, 1)
    /\ state = [round |-> 0, result |-> NoResult]
    /\ phase = "economy"
    /\ decision = NoDecision
    /\ startPosition = fieldPosition
    /\ playsLength = 0
    /\ lastPlay = NoResult
    /\ sumYards = 0
    /\ endedEarlier = FALSE
    /\ driveResult = NoDrive
    /\ clash = [kind |-> "economy",
                teams |-> [t \in TeamIds |-> NoTeam],
                players |-> EconomyPlayers,
                earned |-> [p \in PlayerIds |-> 0],
                paid |-> [p \in PlayerIds |-> 0],
                ops |-> 0,
                last |-> NoOperation]

EconomyUnchanged == UNCHANGED <<state, phase, decision, driveVars, rosterVars>>

\* createTeam: a new id, the starting budget, an empty roster
CreateTeam ==
    /\ phase = "economy"
    /\ clash.ops < MaxOps
    /\ \E t \in TeamIds :
          /\ ~clash.teams[t].created
          /\ clash' = [clash EXCEPT
                         !.teams[t] = [created |-> TRUE, fameBudget |-> STARTING_FAME,
                                       roster |-> <<>>],
                         !.ops = @ + 1, !.last = Operation("createTeam", t, "none", 0, TRUE)]
    /\ EconomyUnchanged

\* addFame(teamId, amount)
AddFame ==
    /\ phase = "economy"
    /\ clash.ops < MaxOps
    /\ \E t \in TeamIds, amount \in FameAmounts :
          IF ~clash.teams[t].created
          THEN clash' = [clash EXCEPT !.ops = @ + 1, !.last = Operation("addFame", t, "none", amount, FALSE)]
          ELSE clash' = [clash EXCEPT
                              !.teams[t].fameBudget = @ + amount,
                              !.ops = @ + 1, !.last = Operation("addFame", t, "none", amount, TRUE)]
    /\ EconomyUnchanged

\* deductFame without the budget test
DeductFame_NoCheck ==
    /\ phase = "economy"
    /\ clash.ops < MaxOps
    /\ \E t \in TeamIds, amount \in FameAmounts :
          IF ~clash.teams[t].created
          THEN clash' = [clash EXCEPT !.ops = @ + 1, !.last = Operation("deductFame", t, "none", amount, FALSE)]
          ELSE clash' = [clash EXCEPT
                           !.teams[t].fameBudget = @ - amount,
                           !.ops = @ + 1, !.last = Operation("deductFame", t, "none", amount, TRUE)]
    /\ EconomyUnchanged

\* deductFame(teamId, amount): refused for an unknown team or a budget below amount
DeductFame ==
    /\ phase = "economy"
    /\ clash.ops < MaxOps
    /\ \E t \in TeamIds, amount \in FameAmounts :
          IF ~clash.teams[t].created \/ clash.teams[t].fameBudget < amount
          THEN clash' = [clash EXCEPT !.ops = @ + 1, !.last = Operation("deductFame", t, "none", amount, FALSE)]
          ELSE clash' = [clash EXCEPT
                           !.teams[t].fameBudget = @ - amount,
                           !.ops = @ + 1, !.last = Operation("deductFame", t, "none", amount, TRUE)]
    /\ EconomyUnchanged

\* buyPlayer that takes the cost from the budget even when the purchase is refused
BuyPlayer_ChargesRefusal ==
    /\ phase = "economy"
    /\ clash.ops < MaxOps
    /\ \E t \in TeamIds, p \in PlayerIds :
          LET cost == calculatePlayerCost(clash.players[p])
          IN  IF ~clash.teams[t].created
              THEN clash' = [clash EXCEPT !.ops = @ + 1, !.last = Operation("buyPlayer", t, p, 0, FALSE)]
              ELSE IF clash.teams[t].fameBudget < cost
              THEN clash' = [clash EXCEPT
                               !.teams[t].fameBudget = Max(0, @ - cost),
                               !.ops = @ + 1, !.last = Operation("buyPlayer", t, p, cost, FALSE)]
              ELSE clash' = [clash EXCEPT
                                  !.teams[t].fameBudget = @ - cost,
                                  !.teams[t].roster = Append(@, p),
                                  !.ops = @ + 1, !.last = Operation("buyPlayer", t, p, cost, TRUE)]
    /\ EconomyUnchanged

\* buyPlayer(teamId, player): refused for an unknown team or a budget below the
\* cost, else the cost leaves the budget and the player joins the roster
BuyPlayer ==
    /\ phase = "economy"
    /\ clash.ops < MaxOps
    /\ \E t \in TeamIds, p \in PlayerIds :
          LET cost == calculatePlayerCost(clash.players[p])
          IN  IF ~clash.teams[t].created
              THEN clash' = [clash EXCEPT !.ops = @ + 1, !.last = Operation("buyPlayer", t, p, 0, FALSE)]
              ELSE IF clash.teams[t].fameBudget < cost
              THEN clash' = [clash EXCEPT !.ops = @ + 1, !.last = Operation("buyPlayer", t, p, cost, FALSE)]
              ELSE clash' = [clash EXCEPT
                                  !.teams[t].fameBudget = @ - cost,
                                  !.teams[t].roster = Append(@, p),
                                  !.ops = @ + 1, !.last = Operation("buyPlayer", t, p, cost, TRUE)]
    /\ EconomyUnchanged

\* harvestPlayer(teamId, playerId): the first roster entry with the id leaves the
\* roster and its accumulated fame bank is added to the budget
HarvestPlayer ==
    /\ phase = "economy"
    /\ clash.ops < MaxOps
    /\ \E t \in TeamIds, p \in PlayerIds :
          LET team == clash.teams[t]
              playerIndex == findIndex(team.roster, p, 1)
              famePayout == clash.players[p].hypeData.accumulatedFameBank
          IN  IF ~team.created \/ playerIndex = 0
              THEN clash' = [clash EXCEPT !.ops = @ + 1, !.last = Operation("harvestPlayer", t, p, 0, FALSE)]
              ELSE clash' = [clash EXCEPT
                                  !.teams[t].roster = splice(@, playerIndex),
                                  !.teams[t].fameBudget = @ + famePayout,
                                  !.paid[p] = @ + famePayout,
                                  !.ops = @ + 1, !.last = Operation("harvestPlayer", t, p, famePayout, TRUE)]
    /\ EconomyUnchanged

\* processGamePerformance that books the earned fame as season earnings only
ProcessGamePerformance_SeasonOnly ==
    /\ phase = "economy"
    /\ clash.ops < MaxOps
    /\ \E t \in TeamIds, p \in PlayerIds, gameStats \in GameStats :
          LET team == clash.teams[t]
              rawPoints == calculateRawPerformancePoints(gameStats)
              earnedFame == calculateEarnedFame(rawPoints, clash.players[p])
          IN  IF ~team.created \/ findIndex(team.roster, p, 1) = 0
              THEN clash' = [clash EXCEPT
                               !.ops = @ + 1, !.last = Operation("processGamePerformance", t, p, 0, FALSE)]
              ELSE clash' = [clash EXCEPT
                                  !.players[p].hypeData.seasonFameEarnings = @ + earnedFame,
                                  !.earned[p] = @ + earnedFame,
                                  !.ops = @ + 1, !.last = Operation("processGamePerformance", t, p,
                                                     earnedFame, TRUE)]
    /\ EconomyUnchanged

\* processGamePerformance(teamId, playerId, gameStats): 0 for an unknown team or a
\* player not on its roster, else the earned fame goes to both counters
ProcessGamePerformance ==
    /\ phase = "economy"
    /\ clash.ops < MaxOps
    /\ \E t \in TeamIds, p \in PlayerIds, gameStats \in GameStats :
          LET team == clash.teams[t]
              rawPoints == calculateRawPerformancePoints(gameStats)
              earnedFame == calculateEarnedFame(rawPoints, clash.players[p])
          IN  IF ~team.created \/ findIndex(team.roster, p, 1) = 0
              THEN clash' = [clash EXCEPT
                               !.ops = @ + 1, !.last = Operation("processGamePerformance", t, p, 0, FALSE)]
              ELSE clash' = [clash EXCEPT
                                  !.players[p].hypeData.accumulatedFameBank = @ + earnedFame,
                                  !.players[p].hypeData.seasonFameEarnings = @ + earnedFame,
                                  !.earned[p] = @ + earnedFame,
                                  !.ops = @ + 1, !.last = Operation("processGamePerformance", t, p,
                                                     earnedFame, TRUE)]
    /\ EconomyUnchanged

\* the players after seasonFameEarnings = 0 for every entry of the roster
SeasonReset(players, roster) ==
    [p \in PlayerIds |->
        IF findIndex(roster, p, 1) # 0
        THEN [players[p] EXCEPT !.hypeData.seasonFameEarnings = 0]
        ELSE players[p]]

\* resetSeasonEarnings(teamId)
ResetSeasonEarnings ==
    /\ phase = "economy"
    /\ clash.ops < MaxOps
    /\ \E t \in TeamIds :
          IF ~clash.teams[t].created
          THEN clash' = [clash EXCEPT
                           !.ops = @ + 1, !.last = Operation("resetSeasonEarnings", t, "none", 0, FALSE)]
          ELSE clash' = [clash EXCEPT
                           !.players = SeasonReset(@, clash.teams[t].roster),
                           !.ops = @ + 1, !.last = Operation("resetSeasonEarnings", t, "none", 0, TRUE)]
    /\ EconomyUnchanged

\* the number of roster entries of all created teams that hold the player
RosterEntries(teams, p) ==
    LET Count(t) == Cardinality({i \in 1 .. Len(teams[t].roster) : teams[t].roster[i] = p})
    IN  Count("t1") + Count("t2")

\* processEndOfSeason: every roster entry of every team ages its player by a year,
\* then the season earnings of the rostered players are reset
ProcessEndOfSeason ==
    /\ phase = "economy"
    /\ clash.ops < MaxOps
    /\ clash' = [clash EXCEPT
                   !.players = [p \in PlayerIds |->
                                  LET entries == RosterEntries(clash.teams, p)
                                  IN  IF entries = 0 THEN clash.players[p]
                                      ELSE [clash.players[p] EXCEPT
                                              !.age = @ + entries,
                                              !.hypeData.seasonFameEarnings = 0]],
                   !.ops = @ + 1,
                   !.last = Operation("processEndOfSeason", "none", "none", 0, TRUE)]
    /\ EconomyUnchanged

NextEconomy ==
    \/ CreateTeam
    \/ AddFame
    \/ DeductFame
    \/ BuyPlayer
    \/ HarvestPlayer
    \/ ProcessGamePerformance
    \/ ResetSeasonEarnings
    \/ ProcessEndOfSeason

\* every sequence of operations of the economy engine
EconomySpec == InitEconomy /\ [][NextEconomy]_vars

\* C35: a team's fameBudget is never negative after any sequence of createTeam,
\* buyPlayer, harvestPlayer, addFame and deductFame with non-negative amounts, and
\* deductFame and buyPlayer return failure and change no team whenever the budget
\* is below the amount or the cost
C35_BudgetNeverNegative ==
    /\ [](clash.kind = "economy" =>
            \A t \in TeamIds : clash.teams[t].fameBudget >= 0)
    /\ [][LET last == clash'.last
          IN  /\ (/\ last.op = "deductFame"
                  /\ clash.teams[last.teamId].fameBudget < last.amount)
                    => (~last.success /\ clash'.teams = clash.teams)
              /\ (/\ last.op = "buyPlayer"
                  /\ clash.teams[last.teamId].fameBudget
                        < calculatePlayerCost(clash.players[last.playerId]))
                    => (~last.success /\ clash'.teams = clash.teams)]_vars

\* a created team is refused a deduction larger than the budget it has left
C35_Witness ==
    /\ clash.kind = "economy"
    /\ clash.last.op = "deductFame"
    /\ ~clash.last.success
    /\ clash.teams[clash.last.teamId].created
    /\ clash.teams[clash.last.teamId].fameBudget < clash.last.amount
    /\ clash.teams[clash.last.teamId].fameBudget > 0

\* C36: a failed buyPlayer (unknown team, or budget below the cost) leaves every
\* team's budget and roster unchanged; a successful buyPlayer decreases the buyer's
\* fameBudget by exactly calculatePlayerCost(player), which is at least 50, and adds
\* the player to the end of that team's roster and to no other roster
C36_BuyPlayerExact ==
    [][LET last == clash'.last
           cost == calculatePlayerCost(clash.players[last.playerId])
       IN  last.op = "buyPlayer" =>
             /\ clash'.players = clash.players
             /\ last.success <=>
                  (clash.teams[last.teamId].created
                      /\ clash.teams[last.teamId].fameBudget >= cost)
             /\ ~last.success => clash'.teams = clash.teams
             /\ last.success =>
                  /\ cost >= 50
                  /\ clash'.teams[last.teamId].fameBudget
                        = clash.teams[last.teamId].fameBudget - cost
                  /\ clash'.teams[last.teamId].roster
                        = Append(clash.teams[last.teamId].roster, last.playerId)
                  /\ \A t \in TeamIds \ {last.teamId} : clash'.teams[t] = clash.teams[t]]_vars

\* a team has just bought the old player at the minimum price of 50
C36_Witness ==
    /\ clash.kind = "economy"
    /\ clash.last.op = "buyPlayer"
    /\ clash.last.success
    /\ clash.last.amount = 50
    /\ clash.teams[clash.last.teamId].fameBudget = STARTING_FAME - 50
    /\ clash.teams[clash.last.teamId].roster = <<clash.last.playerId>>
    /\ \E t \in TeamIds : ~clash.teams[t].created

\* C37: the fame a player has earned is paid out at most once: over any sequence of
\* buyPlayer, processGamePerformance and harvestPlayer the sum of all harvest
\* payouts for a player never exceeds the total fame that player has earned
C37_PaidAtMostOnce ==
    clash.kind = "economy" =>
        \A p \in PlayerIds : clash.paid[p] <= clash.earned[p]

\* C38: for every player 0 <= seasonFameEarnings <= accumulatedFameBank after any
\* sequence of processGamePerformance (with non-negative stats), resetSeasonEarnings
\* and processEndOfSeason: each performance adds the same earned amount to both
\* counters, and a reset zeroes seasonFameEarnings of the team's players without
\* changing any accumulatedFameBank
C38_SeasonWithinBank ==
    /\ [](clash.kind = "economy" =>
            \A p \in PlayerIds :
                /\ 0 <= clash.players[p].hypeData.seasonFameEarnings
                /\ clash.players[p].hypeData.seasonFameEarnings
                      <= clash.players[p].hypeData.accumulatedFameBank)
    /\ [][LET last == clash'.last
              Bank(players, p) == players[p].hypeData.accumulatedFameBank
              Season(players, p) == players[p].hypeData.seasonFameEarnings
          IN  /\ (last.op = "processGamePerformance" /\ last.success) =>
                    /\ last.amount >= 0
                    /\ Bank(clash'.players, last.playerId)
                          = Bank(clash.players, last.playerId) + last.amount
                    /\ Season(clash'.players, last.playerId)
                          = Season(clash.players, last.playerId) + last.amount
              /\ (last.op = "resetSeasonEarnings" /\ last.success) =>
                    \A p \in PlayerIds :
                        /\ Bank(clash'.players, p) = Bank(clash.players, p)
                        /\ Season(clash'.players, p)
                              = IF findIndex(clash.teams[last.teamId].roster, p, 1) # 0
                                THEN 0 ELSE Season(clash.players, p)
              /\ last.op = "processEndOfSeason" =>
                    \A p \in PlayerIds :
                        /\ Bank(clash'.players, p) = Bank(clash.players, p)
                        /\ Season(clash'.players, p) \in {0, Season(clash.players, p)}]_vars

\* the season earnings of a player with fame in the bank have just been reset
C38_Witness ==
    /\ clash.kind = "economy"
    /\ clash.last.op = "resetSeasonEarnings"
    /\ clash.last.success
    /\ \E p \in PlayerIds :
          /\ findIndex(clash.teams[clash.last.teamId].roster, p, 1) # 0
          /\ clash.players[p].hypeData.accumulatedFameBank > 0
          /\ clash.players[p].hypeData.seasonFameEarnings = 0

\* C40: after any sequence of buyPlayer and harvestPlayer no player id appears more
\* than once in a team's roster or in the rosters of two different teams, and a
\* player that has just been harvested is on no roster
C40_OneRosterPerPlayer ==
    clash.kind = "economy" =>
        /\ \A p \in PlayerIds : RosterEntries(clash.teams, p) <= 1
        /\ (clash.last.op = "harvestPlayer" /\ clash.last.success)
              => RosterEntries(clash.teams, clash.last.playerId) = 0

-----------------------------------------------------------------------------
(* FootballEconomyEngine: the playoff bracket *)

TEAMS_QUALIFY == 8

\* the two Math.random() draws of a match, in thousandths
PlayoffDraws == {0, 999}

\* a registered team of the league: id, record and roster
LeagueTeam(id, wins, losses, roster) ==
    [id |-> id, coachVP |-> 0, playoffFinish |-> "none",
     record |-> [wins |-> wins, losses |-> losses], roster |-> roster]

\* the leagues handed to runPlayoffs, in registration order: nine teams of which
\* one misses the playoffs and one has a player on its roster, eight teams with
\* equal records, and seven teams
PlayoffFields ==
    { [i \in 1 .. 9 |->
          LET wins == <<3, 9, 5, 7, 1, 8, 2, 6, 6>>[i]
          IN  LeagueTeam(i, wins, IF i = 9 THEN 2 ELSE 9 - wins,
                         IF i = 2 THEN <<EconomyPlayers["p2"]>> ELSE <<>>)],
      [i \in 1 .. 8 |-> LeagueTeam(i, 4, 4, <<>>)],
      [i \in 1 .. 7 |-> LeagueTeam(i, i, 7 - i, <<>>)] }

\* the comparison of initializePlayoffs: more wins first, then fewer losses
RanksBefore(a, b) ==
    IF b.record.wins - a.record.wins # 0 THEN b.record.wins - a.record.wins < 0
    ELSE a.record.losses - b.record.losses < 0

\* [...teams].sort(compare), a stable sort
RECURSIVE InsertSorted(_, _)
InsertSorted(sorted, team) ==
    IF sorted = <<>> THEN <<team>>
    ELSE IF RanksBefore(team, Head(sorted)) THEN <<team>> \o sorted
    ELSE <<Head(sorted)>> \o InsertSorted(Tail(sorted), team)

RECURSIVE SortTeams(_)
SortTeams(teams) ==
    IF teams = <<>> THEN <<>>
    ELSE InsertSorted(SortTeams(SubSeq(teams, 1, Len(teams) - 1)), teams[Len(teams)])

\* tenths of a victory point for a playoff finish
VpAward(finish) ==
    CASE finish = "champion" -> 1000
      [] finish = "runner_up" -> 200
      [] finish = "conference_finals" -> 100
      [] finish = "divisional" -> 50
      [] finish = "wild_card" -> 25
      [] OTHER -> 0

\* awardPlayoffVP(teamId, finish) on the engine: the VP are added to the team, its
\* finish is set, and the award is logged; nothing for an unknown team
awardPlayoffVP(engine, teamId, finish) ==
    IF teamId \notin DOMAIN engine.teams THEN engine
    ELSE [engine EXCEPT
            !.teams[teamId].coachVP = @ + VpAward(finish),
            !.teams[teamId].playoffFinish = finish,
            !.awards = Append(@, [teamId |-> teamId, finish |-> finish])]

RECURSIVE AwardMissed(_, _)
AwardMissed(engine, teams) ==
    IF teams = <<>> THEN engine
    ELSE AwardMissed(awardPlayoffVP(engine, Head(teams).id, "missed"), Tail(teams))

RECURSIVE SumOver(_, _)
SumOver(values, i) == IF i = 0 THEN 0 ELSE values[i] + SumOver(values, i - 1)

\* calculateTeamStrength in thousandths: 50 for an empty roster, else average
\* overall * 0.6 + average multiplier * 20 + win percentage * 30
calculateTeamStrength(team) ==
    IF Len(team.roster) = 0 THEN 50 * 1000
    ELSE LET n == Len(team.roster)
             sumOverall == SumOver([i \in 1 .. n |-> team.roster[i].overall], n)
             sumHype == SumOver([i \in 1 .. n |-> calculateCurrentMultiplier(team.roster[i])], n)
         IN  (sumOverall * 600) \div n + (sumHype * 20) \div n
             + (team.record.wins * 30 * 1000)
                   \div Max(1, team.record.wins + team.record.losses)

\* the finish of the loser of a round
LoserFinish(round) == IF round = "championship" THEN "runner_up" ELSE round

\* the next match of the bracket of runPlayoffs: 1 v 8, 2 v 7, 3 v 6, 4 v 5, then
\* the winners of matches 1 and 4 and of 2 and 3, then the two divisional winners,
\* then the winner and the loser of the conference final
NextMatch(engine) ==
    LET pt == engine.playoffTeams
        wc == engine.wildCardRound
        dv == engine.divisionalRound
        cf == engine.conferenceFinals
    IN  IF Len(wc) < 4
        THEN [round |-> "wild_card", team1 |-> pt[Len(wc) + 1], team2 |-> pt[8 - Len(wc)]]
        ELSE IF Len(dv) = 0
        THEN [round |-> "divisional", team1 |-> wc[1].winner, team2 |-> wc[4].winner]
        ELSE IF Len(dv) = 1
        THEN [round |-> "divisional", team1 |-> wc[2].winner, team2 |-> wc[3].winner]
        ELSE IF Len(cf) = 0
        THEN [round |-> "conference_finals", team1 |-> dv[1].winner, team2 |-> dv[2].winner]
        ELSE [round |-> "championship", team1 |-> cf[1].winner, team2 |-> cf[1].loser]

\* the registered teams of a league before the playoffs
InitPlayoffs ==
    /\ offense = BaseRoster.offense
    /\ defense = BaseRoster.defense
    /\ fieldPosition = Position(35, 10, 1)
    /\ state = [round |-> 0, result |-> NoResult]
    /\ phase = "playoffs"
    /\ decision = NoDecision
    /\ startPosition = fieldPosition
    /\ playsLength = 0
    /\ lastPlay = NoResult
    /\ sumYards = 0
    /\ endedEarlier = FALSE
    /\ driveResult = NoDrive
    /\ \E field \in PlayoffFields :
          clash = [kind |-> "playoffs", stage |-> "registered", league |-> field,
                   teams |-> [id \in 1 .. Len(field) |-> field[id]],
                   awards |-> <<>>, playoffTeams |-> <<>>,
                   wildCardRound |-> <<>>, divisionalRound |-> <<>>,
                   conferenceFinals |-> <<>>, championship |-> <<>>]

\* runPlayoffs up to its first match: initializePlayoffs seeds the top eight of
\* the sorted teams and awards 'missed' to the rest; fewer than eight teams throw
RunPlayoffs ==
    /\ phase = "playoffs"
    /\ clash.stage = "registered"
    /\ LET sorted == SortTeams(clash.league)
           seeded == SubSeq(sorted, 1, Min(TEAMS_QUALIFY, Len(sorted)))
           missed == SubSeq(sorted, TEAMS_QUALIFY + 1, Len(sorted))
           engine == AwardMissed(clash, missed)
       IN  clash' = [engine EXCEPT
                       !.playoffTeams = [i \in 1 .. Len(seeded) |-> seeded[i].id],
                       !.stage = IF Len(seeded) < 8 THEN "error" ELSE "bracket"]
    /\ EconomyUnchanged

\* simulatePlayoffMatch on the next match of the bracket: the higher roll wins
\* (team2 on a tie), the loser is awarded the finish of the round, and the winner
\* of the championship is awarded champion
SimulatePlayoffMatch ==
    /\ phase = "playoffs"
    /\ clash.stage = "bracket"
    /\ \E u1 \in PlayoffDraws, u2 \in PlayoffDraws :
          LET match == NextMatch(clash)
              roll1 == calculateTeamStrength(clash.teams[match.team1]) + u1 * 30
              roll2 == calculateTeamStrength(clash.teams[match.team2]) + u2 * 30
              winner == IF roll1 > roll2 THEN match.team1 ELSE match.team2
              loser == IF roll1 > roll2 THEN match.team2 ELSE match.team1
              result == [winner |-> winner, loser |-> loser]
              engine == awardPlayoffVP(clash, loser, LoserFinish(match.round))
          IN  clash' =
                CASE match.round = "wild_card" ->
                       [engine EXCEPT !.wildCardRound = Append(@, result)]
                  [] match.round = "divisional" ->
                       [engine EXCEPT !.divisionalRound = Append(@, result)]
                  [] match.round = "conference_finals" ->
                       [engine EXCEPT !.conferenceFinals = Append(@, result)]
                  [] OTHER ->
                       [awardPlayoffVP(engine, winner, "champion") EXCEPT
                          !.championship = Append(@, result), !.stage = "done"]
    /\ EconomyUnchanged

NextPlayoffs ==
    \/ RunPlayoffs
    \/ SimulatePlayoffMatch

\* runPlayoffs on every league, match by match
PlayoffSpec == InitPlayoffs /\ [][NextPlayoffs]_vars

\* the awards of the log that went to a team, 'missed' aside
FinishAwards(teamId) ==
    Cardinality({i \in 1 .. Len(clash.awards) :
                    clash.awards[i].teamId = teamId /\ clash.awards[i].finish # "missed"})

\* the matches of the bracket
BracketMatches ==
    clash.wildCardRound \o clash.divisionalRound \o clash.conferenceFinals \o clash.championship

\* C39: in a completed runPlayoffs over at least eight registered teams each of the
\* eight qualifying teams receives exactly one playoff-finish award, exactly one
\* team is awarded champion, and the champion lost no match of the bracket
C39_BracketAwards ==
    (clash.kind = "playoffs" /\ clash.stage = "done") =>
        /\ \A i \in 1 .. 8 : FinishAwards(clash.playoffTeams[i]) = 1
        /\ Cardinality({i \in 1 .. Len(clash.awards) : clash.awards[i].finish = "champion"}) = 1
        /\ \A i \in 1 .. Len(clash.awards) :
              clash.awards[i].finish = "champion" =>
                  \A m \in 1 .. Len(BracketMatches) :
                      BracketMatches[m].loser # clash.awards[i].teamId

====
